---- MODULE Spec2Model ----
(***************************************************************************)
(* Rollback state engine of deps/ggpo (Sync): the saved-frame ring with    *)
(* delta + LZ4 snapshot encoding, the state buffer pool, the background    *)
(* compression worker, and the rollback-and-replay driver.                 *)
(*                                                                         *)
(* Bytes are modelled as bits (0 or 1) so that XOR is addition mod 2.      *)
(* A buffer is a record [id, data]: id is the address (0 is the null       *)
(* pointer), data the bytes stored there.  malloc returns the lowest       *)
(* address that is not live.                                               *)
(***************************************************************************)
EXTENDS Integers, Sequences, FiniteSets, TLC

MAX_PREDICTION_FRAMES == 8

GGPO_STATE_KEYFRAME_INTERVAL == 4

\* ARRAY_SIZE(_savedstate.frames)
RingSize == MAX_PREDICTION_FRAMES + 2

\* GameInput::NullFrame
NullFrame == -1

\* config.num_players of the modelled session
NumPlayers == 2

(***************************************************************************)
(* Bounds of the model.                                                    *)
(***************************************************************************)
\* IncrementFrame is not taken once _framecount has reached MaxFrame
MaxFrame == 10

\* number of LoadFrame / AdjustSimulation calls in one behaviour
MaxLoads == 1

\* number of AddLocalInput calls in one behaviour
MaxLocalInputs == 1

\* number of times the simulation state changes its value from one frame to
\* the next in one behaviour
MaxChanges == 1

\* with the compression worker running, IncrementFrame is not taken once
\* _framecount has reached MaxAsyncFrame
MaxAsyncFrame == 3

\* with callbacks that may fail, IncrementFrame is not taken once
\* _framecount has reached MaxCbFrame
MaxCbFrame == 4

Slots == 0 .. (RingSize - 1)

Min(S) == CHOOSE x \in S : \A y \in S : x <= y

(***************************************************************************)
(* SIMD primitives (the scalar, SSE2 and AVX2 variants compute the same    *)
(* bytes).                                                                 *)
(***************************************************************************)
Xor(a, b) == (a + b) % 2

\* dst[i] = lhs[i] ^ rhs[i] for i < len
XorBuffers(lhs, rhs, len) == [i \in 1 .. len |-> Xor(lhs[i], rhs[i])]

\* dst[i] ^= src[i] for i < len; the bytes of dst past len are kept
XorBufferInPlace(dst, src, len) ==
  [i \in 1 .. Len(dst) |-> IF i <= len THEN Xor(dst[i], src[i]) ELSE dst[i]]

\* memcpy of the first len bytes of src
FastMemcpy(src, len) == SubSeq(src, 1, len)

(***************************************************************************)
(* LZ4 codec.  The library is external; it is modelled as a lossless       *)
(* run-length codec: a payload is a sequence of (count, byte) pairs.  It   *)
(* shrinks runs and grows alternating data, as LZ4 does.                   *)
(***************************************************************************)
RECURSIVE RunLength(_, _)
RunLength(src, i) ==
  IF i < Len(src) /\ src[i + 1] = src[1] THEN RunLength(src, i + 1) ELSE i

\* worst case of the codec: one pair per byte
LZ4_compressBound(n) == 2 * n

RECURSIVE LZ4_compress_fast(_)
LZ4_compress_fast(src) ==
  IF src = <<>> THEN <<>>
  ELSE LET n == RunLength(src, 1)
       IN  <<n, src[1]>> \o LZ4_compress_fast(SubSeq(src, n + 1, Len(src)))

RECURSIVE LZ4_expand(_)
LZ4_expand(src) ==
  IF Len(src) < 2 THEN <<>>
  ELSE [i \in 1 .. src[1] |-> src[2]] \o LZ4_expand(SubSeq(src, 3, Len(src)))

\* returns the decoded bytes and their count, or n = -1 when the payload is
\* malformed or does not fit into dst_capacity bytes
LZ4_decompress_safe(src, src_size, dst_capacity) ==
  LET in  == SubSeq(src, 1, src_size)
      out == LZ4_expand(in)
  IN  IF src_size % 2 # 0 \/ src_size > Len(src) \/ Len(out) > dst_capacity
      THEN [n |-> -1, data |-> <<>>]
      ELSE [n |-> Len(out), data |-> out]

(***************************************************************************)
(* Buffers and the heap.                                                   *)
(***************************************************************************)
NULL == [id |-> 0, data |-> <<>>]

\* Sync::SavedFrame::SavedFrame()
SavedFrame ==
  [buf |-> NULL, cbuf |-> 0, uncompressed_size |-> 0, buf_capacity |-> 0,
   frame |-> -1, compressed |-> FALSE, delta |-> FALSE,
   compress_pending |-> FALSE]

\* addresses of the buffers the engine refers to: those held by ring slots,
\* by the pool and by finished compression results
LiveIds(e) ==
  ({e.frames[i].buf.id : i \in Slots}
     \cup {e.pool[k].id : k \in 1 .. Len(e.pool)}
     \cup {e.results[k].compressed_buf.id : k \in 1 .. Len(e.results)}) \ {0}

\* malloc: the lowest address that is neither allocated nor held in a local
\* variable of the running operation
Malloc(e, held) ==
  LET used == e.mallocs \cup e.cbufs \cup held
  IN  Min((1 .. (Cardinality(used) + 1)) \ used)

\* the heap after the engine has allocated the buffer at id with malloc
HeapMalloc(e, id) == [e EXCEPT !.mallocs = @ \cup {id}]

\* the heap after the save callback has allocated the buffer at id
HeapCallback(e, id) == [e EXCEPT !.cbufs = @ \cup {id}]

\* free(): heap_fault records a release the heap does not allow
Free(e, id) ==
  IF id = 0 THEN e
  ELSE IF id \in e.mallocs THEN [e EXCEPT !.mallocs = @ \ {id}]
  ELSE IF id \in e.cbufs
  THEN [e EXCEPT !.heap_fault = "free of a callback buffer"]
  ELSE [e EXCEPT !.heap_fault = "double free"]

\* _callbacks.free_buffer
FreeBuffer(e, id) ==
  IF id \in e.cbufs THEN [e EXCEPT !.cbufs = @ \ {id}]
  ELSE IF id \in e.mallocs
  THEN [e EXCEPT !.heap_fault = "free callback on an engine buffer"]
  ELSE [e EXCEPT !.heap_fault = "double free"]

(***************************************************************************)
(* Input queues.  input_queue.cpp is not part of the sources at hand; the  *)
(* queue is modelled from its description: the last frame added by the     *)
(* user, the last frame requested, the prediction cursor (the next frame   *)
(* a prediction stands in for, NullFrame when the queue is not             *)
(* predicting) and the first frame whose prediction turned out wrong.      *)
(* The input bytes are not modelled: an added input either equals the      *)
(* prediction made for its frame or differs from it.                       *)
(***************************************************************************)
InputQueue ==
  [last_user_added_frame |-> NullFrame, last_frame_requested |-> NullFrame,
   prediction_frame |-> NullFrame, first_incorrect_frame |-> NullFrame]

\* InputQueue::AddInput.  An input that lands on a predicted frame and
\* differs from the prediction sets the first incorrect frame; one that
\* lands on the last frame requested with no error ends the prediction
InputQueue_AddInput(q, frame, differs) ==
  LET predicting == q.prediction_frame # NullFrame
      first_incorrect == IF predicting /\ differs
                            /\ q.first_incorrect_frame = NullFrame
                         THEN frame ELSE q.first_incorrect_frame
  IN  [q EXCEPT !.last_user_added_frame = frame,
                !.first_incorrect_frame = first_incorrect,
                !.prediction_frame =
                  IF ~predicting THEN NullFrame
                  ELSE IF frame = q.last_frame_requested
                          /\ first_incorrect = NullFrame
                  THEN NullFrame
                  ELSE frame + 1]

\* InputQueue::GetInput: a frame past the last added one is predicted
InputQueue_GetInput(q, frame) ==
  [q EXCEPT !.last_frame_requested = frame,
            !.prediction_frame = IF @ = NullFrame /\ frame > q.last_user_added_frame
                                 THEN q.last_user_added_frame + 1 ELSE @]

\* InputQueue::ResetPrediction: the prediction state is cleared, and the
\* first incorrect frame too when it is at or after frame
InputQueue_ResetPrediction(q, frame) ==
  [q EXCEPT !.prediction_frame = NullFrame,
            !.first_incorrect_frame = IF @ >= frame THEN NullFrame ELSE @,
            !.last_frame_requested = NullFrame]

InputQueue_GetFirstIncorrectFrame(q) == q.first_incorrect_frame

(***************************************************************************)
(* State buffer pool.                                                      *)
(***************************************************************************)
RemoveAt(seq, k) == SubSeq(seq, 1, k - 1) \o SubSeq(seq, k + 1, Len(seq))

\* Sync::AcquireStateBuffer: the smallest pooled buffer that holds the size
\* hint, removed from the pool; the null pointer when there is none
AcquireStateBuffer(e) ==
  LET fit == {k \in 1 .. Len(e.pool) : e.pool[k].capacity >= e.hint}
  IN  IF e.hint <= 0 \/ e.pool = <<>> \/ fit = {}
      THEN [e |-> e, buf |-> NULL, capacity |-> 0]
      ELSE LET best == CHOOSE k \in fit :
                         \A j \in fit :
                           \/ e.pool[k].capacity < e.pool[j].capacity
                           \/ e.pool[k].capacity = e.pool[j].capacity /\ k <= j
           IN  [e |-> [e EXCEPT !.pool = RemoveAt(@, best)],
                buf |-> [id |-> e.pool[best].id, data |-> e.pool[best].data],
                capacity |-> e.pool[best].capacity]

\* RecycleStateBuffer that pools the buffer whatever the size of the pool
RecycleStateBufferUnbounded(e, buffer, capacity) ==
  IF buffer.id = 0 THEN e
  ELSE IF capacity <= 0 \/ ~e.free_buffer
  THEN IF e.free_buffer THEN FreeBuffer(e, buffer.id) ELSE e
  ELSE [e EXCEPT !.pool = Append(@, [id |-> buffer.id, capacity |-> capacity,
                                     data |-> buffer.data]),
                 !.heap_fault = IF buffer.id \in e.cbufs THEN @
                                ELSE "engine buffer in the pool"]

\* Sync::RecycleStateBuffer; free_buffer says that _callbacks.free_buffer is
\* set.  A buffer that did not come from the save callback must not reach
\* the pool, whose buffers end in the free callback.
RecycleStateBuffer(e, buffer, capacity) ==
  IF buffer.id = 0 THEN e
  ELSE IF capacity <= 0 \/ ~e.free_buffer
  THEN IF e.free_buffer THEN FreeBuffer(e, buffer.id) ELSE e
  ELSE IF Len(e.pool) >= RingSize THEN FreeBuffer(e, buffer.id)
  ELSE [e EXCEPT !.pool = Append(@, [id |-> buffer.id, capacity |-> capacity,
                                     data |-> buffer.data]),
                 !.heap_fault = IF buffer.id \in e.cbufs THEN @
                                ELSE "engine buffer in the pool"]

(***************************************************************************)
(* Saved-frame ring: find, decode and reconstruct.                         *)
(***************************************************************************)
\* Sync::FindSavedFrameIndex
FindSavedFrameIndex(e, frame) ==
  IF \E i \in Slots : e.frames[i].frame = frame
  THEN Min({i \in Slots : e.frames[i].frame = frame})
  ELSE -1

DecodeFailed == [ok |-> FALSE, data |-> <<>>]

\* Sync::DecodeSavedFrameRaw
DecodeSavedFrameRaw(state, buffer_size) ==
  IF state.buf.id = 0 \/ state.uncompressed_size <= 0
     \/ buffer_size < state.uncompressed_size
  THEN DecodeFailed
  ELSE IF state.compressed
  THEN LET d == LZ4_decompress_safe(state.buf.data, state.cbuf,
                                    state.uncompressed_size)
       IN  IF d.n = state.uncompressed_size
           THEN [ok |-> TRUE, data |-> d.data]
           ELSE DecodeFailed
  ELSE [ok |-> TRUE, data |-> FastMemcpy(state.buf.data, state.uncompressed_size)]

\* Sync::DecodeSavedFrameInternal: the scratch buffer is resized to the
\* frame's uncompressed size and then filled
DecodeSavedFrameInternal(state) ==
  IF state.buf.id = 0 \/ state.uncompressed_size <= 0
  THEN DecodeFailed
  ELSE DecodeSavedFrameRaw(state, state.uncompressed_size)

\* the backward scan of Sync::ReconstructFrameInternal: the newest non-delta
\* frame at or before base_frame, -1 when a frame of the chain is missing
RECURSIVE FindBaseFrame(_, _)
FindBaseFrame(e, base_frame) ==
  IF base_frame < 0 THEN -1
  ELSE LET base_index == FindSavedFrameIndex(e, base_frame)
       IN  IF base_index < 0 THEN -1
           ELSE IF ~e.frames[base_index].delta THEN base_frame
           ELSE FindBaseFrame(e, base_frame - 1)

\* the forward loop of Sync::ReconstructFrameInternal, from frame f on
RECURSIVE ApplyDeltaChain(_, _, _, _)
ApplyDeltaChain(e, f, frame, buffer) ==
  IF f > frame THEN [ok |-> TRUE, data |-> buffer]
  ELSE LET delta_index == FindSavedFrameIndex(e, f)
       IN  IF delta_index < 0 THEN DecodeFailed
           ELSE LET delta_state == e.frames[delta_index]
                    d == DecodeSavedFrameInternal(delta_state)
                IN  IF ~d.ok THEN DecodeFailed
                    ELSE IF ~delta_state.delta
                    THEN ApplyDeltaChain(e, f + 1, frame, d.data)
                    ELSE IF Len(buffer) < delta_state.uncompressed_size
                    THEN DecodeFailed
                    ELSE ApplyDeltaChain(e, f + 1, frame,
                           XorBufferInPlace(buffer, d.data,
                                            delta_state.uncompressed_size))

\* Sync::ReconstructFrameInternal (Sync::ReconstructFrame is the same
\* algorithm on a std::vector)
ReconstructFrameInternal(e, frame) ==
  LET state_index == FindSavedFrameIndex(e, frame)
  IN  IF state_index < 0 THEN DecodeFailed
      ELSE IF ~e.frames[state_index].delta
      THEN DecodeSavedFrameInternal(e.frames[state_index])
      ELSE LET base_frame == FindBaseFrame(e, frame)
           IN  IF base_frame < 0 THEN DecodeFailed
               ELSE LET b == DecodeSavedFrameInternal(
                               e.frames[FindSavedFrameIndex(e, base_frame)])
                    IN  IF ~b.ok THEN DecodeFailed
                        ELSE ApplyDeltaChain(e, base_frame + 1, frame, b.data)

\* Sync::UpdateLastState
UpdateLastState(e, state, size, frame) ==
  IF state.id = 0 \/ size <= 0
  THEN [e EXCEPT !.last_state =
          [data |-> <<>>, size |-> 0, frame |-> -1, valid |-> FALSE]]
  ELSE [e EXCEPT !.last_state =
          [data |-> FastMemcpy(state.data, size), size |-> size,
           frame |-> frame, valid |-> TRUE]]

(***************************************************************************)
(* Compression: the synchronous path, the job and result deques, and the   *)
(* merge of finished results.                                              *)
(***************************************************************************)
NoJob == [state |-> -1, input |-> 0, input_size |-> 0, frame |-> -1]

\* Sync::CompressSync
CompressSync(e, i, input, input_size) ==
  LET state == e.frames[i]
      compressed_buf == [id |-> Malloc(e, {}),
                         data |-> LZ4_compress_fast(FastMemcpy(input.data, input_size))]
      compressed_size == Len(compressed_buf.data)
  IN  IF compressed_size > 0 /\ compressed_size < input_size
      THEN LET e1 == IF state.compressed \/ state.delta
                     THEN Free(e, state.buf.id)
                     ELSE RecycleStateBuffer(e, state.buf, state.buf_capacity)
           IN  [HeapMalloc(e1, compressed_buf.id)
                  EXCEPT !.frames[i].buf = compressed_buf,
                         !.frames[i].cbuf = compressed_size,
                         !.frames[i].buf_capacity = compressed_size,
                         !.frames[i].compressed = TRUE]
      ELSE e

\* QueueCompression without the bound on the jobs and results in flight
QueueCompressionUnbounded(e, i, input, input_size) ==
  IF ~e.async_compress \/ input.id = 0 \/ input_size <= 0 \/ ~e.thread
     \/ e.shutdown \/ e.frames[i].compress_pending
  THEN [ok |-> FALSE, e |-> e]
  ELSE [ok |-> TRUE,
        e |-> [e EXCEPT !.jobs = Append(@, [state |-> i, input |-> input.id,
                                            input_size |-> input_size,
                                            frame |-> e.frames[i].frame]),
                        !.jobs_max = IF Len(e.jobs) + 1 > @ THEN Len(e.jobs) + 1 ELSE @,
                        !.frames[i].compress_pending = TRUE]]

\* QueueCompression that leaves compress_pending of the slot as it is
QueueCompressionUnmarked(e, i, input, input_size) ==
  IF ~e.async_compress \/ input.id = 0 \/ input_size <= 0 \/ ~e.thread
     \/ e.shutdown \/ e.frames[i].compress_pending
     \/ Len(e.jobs) + Len(e.results) >= RingSize
  THEN [ok |-> FALSE, e |-> e]
  ELSE [ok |-> TRUE,
        e |-> [e EXCEPT !.jobs = Append(@, [state |-> i, input |-> input.id,
                                            input_size |-> input_size,
                                            frame |-> e.frames[i].frame]),
                        !.jobs_max = IF Len(e.jobs) + 1 > @ THEN Len(e.jobs) + 1 ELSE @]]

\* Sync::QueueCompression
QueueCompression(e, i, input, input_size) ==
  IF ~e.async_compress \/ input.id = 0 \/ input_size <= 0 \/ ~e.thread
     \/ e.shutdown \/ e.frames[i].compress_pending
     \/ Len(e.jobs) + Len(e.results) >= RingSize
  THEN [ok |-> FALSE, e |-> e]
  ELSE [ok |-> TRUE,
        e |-> [e EXCEPT !.jobs = Append(@, [state |-> i, input |-> input.id,
                                            input_size |-> input_size,
                                            frame |-> e.frames[i].frame]),
                        !.jobs_max = IF Len(e.jobs) + 1 > @ THEN Len(e.jobs) + 1 ELSE @,
                        !.frames[i].compress_pending = TRUE]]

\* ApplyCompressionResult that installs the compressed bytes without
\* marking the slot compressed
ApplyCompressionResultUnmarked(e, result) ==
  LET state == e.frames[result.state]
      e1 == [e EXCEPT !.frames[result.state].compress_pending = FALSE]
  IN  IF result.compressed_buf.id = 0 \/ result.compressed_size <= 0
      THEN Free(e1, result.compressed_buf.id)
      ELSE IF state.frame # result.frame \/ state.buf.id # result.input
              \/ state.compressed
      THEN Free(e1, result.compressed_buf.id)
      ELSE IF result.compressed_size >= state.uncompressed_size
      THEN Free(e1, result.compressed_buf.id)
      ELSE LET e2 == IF state.compressed \/ state.delta
                     THEN Free(e1, state.buf.id)
                     ELSE RecycleStateBuffer(e1, state.buf, state.buf_capacity)
           IN  [e2 EXCEPT !.frames[result.state].buf = result.compressed_buf,
                          !.frames[result.state].cbuf = result.compressed_size,
                          !.frames[result.state].buf_capacity = result.compressed_size]

\* ApplyCompressionResult that installs a result whatever its size
ApplyCompressionResultAnySize(e, result) ==
  LET state == e.frames[result.state]
      e1 == [e EXCEPT !.frames[result.state].compress_pending = FALSE]
  IN  IF result.compressed_buf.id = 0 \/ result.compressed_size <= 0
      THEN Free(e1, result.compressed_buf.id)
      ELSE IF state.frame # result.frame \/ state.buf.id # result.input
              \/ state.compressed
      THEN Free(e1, result.compressed_buf.id)
      ELSE LET e2 == IF state.compressed \/ state.delta
                     THEN Free(e1, state.buf.id)
                     ELSE RecycleStateBuffer(e1, state.buf, state.buf_capacity)
           IN  [e2 EXCEPT !.frames[result.state].buf = result.compressed_buf,
                          !.frames[result.state].cbuf = result.compressed_size,
                          !.frames[result.state].buf_capacity = result.compressed_size,
                          !.frames[result.state].compressed = TRUE]

\* ApplyCompressionResult that does not compare the result with the slot
ApplyCompressionResultUnchecked(e, result) ==
  LET state == e.frames[result.state]
      e1 == [e EXCEPT !.frames[result.state].compress_pending = FALSE]
  IN  IF result.compressed_buf.id = 0 \/ result.compressed_size <= 0
      THEN Free(e1, result.compressed_buf.id)
      ELSE IF result.compressed_size >= state.uncompressed_size
      THEN Free(e1, result.compressed_buf.id)
      ELSE LET e2 == IF state.compressed \/ state.delta
                     THEN Free(e1, state.buf.id)
                     ELSE RecycleStateBuffer(e1, state.buf, state.buf_capacity)
           IN  [e2 EXCEPT !.frames[result.state].buf = result.compressed_buf,
                          !.frames[result.state].cbuf = result.compressed_size,
                          !.frames[result.state].buf_capacity = result.compressed_size,
                          !.frames[result.state].compressed = TRUE]

\* ApplyCompressionResult that takes the slot it compresses for a full
\* snapshot: it clears the delta flag
ApplyCompressionResultClearsDelta(e, result) ==
  LET state == e.frames[result.state]
      e1 == [e EXCEPT !.frames[result.state].compress_pending = FALSE]
  IN  IF result.compressed_buf.id = 0 \/ result.compressed_size <= 0
      THEN Free(e1, result.compressed_buf.id)
      ELSE IF state.frame # result.frame \/ state.buf.id # result.input
              \/ state.compressed
      THEN Free(e1, result.compressed_buf.id)
      ELSE IF result.compressed_size >= state.uncompressed_size
      THEN Free(e1, result.compressed_buf.id)
      ELSE LET e2 == IF state.compressed \/ state.delta
                     THEN Free(e1, state.buf.id)
                     ELSE RecycleStateBuffer(e1, state.buf, state.buf_capacity)
           IN  [e2 EXCEPT !.frames[result.state].buf = result.compressed_buf,
                          !.frames[result.state].cbuf = result.compressed_size,
                          !.frames[result.state].buf_capacity = result.compressed_size,
                          !.frames[result.state].compressed = TRUE,
                          !.frames[result.state].delta = FALSE]

\* Sync::ApplyCompressionResult
ApplyCompressionResult(e, result) ==
  LET state == e.frames[result.state]
      e1 == [e EXCEPT !.frames[result.state].compress_pending = FALSE]
  IN  IF result.compressed_buf.id = 0 \/ result.compressed_size <= 0
      THEN Free(e1, result.compressed_buf.id)
      ELSE IF state.frame # result.frame \/ state.buf.id # result.input
              \/ state.compressed
      THEN Free(e1, result.compressed_buf.id)
      ELSE IF result.compressed_size >= state.uncompressed_size
      THEN Free(e1, result.compressed_buf.id)
      ELSE LET e2 == IF state.compressed \/ state.delta
                     THEN Free(e1, state.buf.id)
                     ELSE RecycleStateBuffer(e1, state.buf, state.buf_capacity)
           IN  [e2 EXCEPT !.frames[result.state].buf = result.compressed_buf,
                          !.frames[result.state].cbuf = result.compressed_size,
                          !.frames[result.state].buf_capacity = result.compressed_size,
                          !.frames[result.state].compressed = TRUE]

\* Sync::ProcessCompressionResults: every queued result, oldest first
RECURSIVE ProcessCompressionResults(_)
ProcessCompressionResults(e) ==
  IF ~e.async_compress \/ e.results = <<>> THEN e
  ELSE ProcessCompressionResults(
         ApplyCompressionResult([e EXCEPT !.results = Tail(@)], Head(e.results)))

\* Sync::WaitForCompression has to wait on _compress_done_cv: the slot is
\* still pending after the queued results were merged and no shutdown is
\* in progress
WaitForCompressionBlocks(e, i) ==
  /\ e.async_compress
  /\ e.frames[i].compress_pending
  /\ ProcessCompressionResults(e).frames[i].compress_pending
  /\ ~e.shutdown

\* Sync::WaitForCompression, called where it does not block
WaitForCompression(e, i) ==
  IF ~e.async_compress \/ ~e.frames[i].compress_pending THEN e
  ELSE LET e1 == ProcessCompressionResults(e)
       IN  [e1 EXCEPT !.frames[i].compress_pending = FALSE]

\* Sync::WaitForCompression after _compress_done_cv.wait has returned: on
\* shutdown the flag is cleared and the function returns; otherwise the
\* loop merges the results and returns when the slot is no longer pending,
\* or goes for the lock again
WaitForCompressionLoop(e) ==
  IF e.shutdown
  THEN [e EXCEPT !.frames[e.wslot].compress_pending = FALSE, !.wait = "resume"]
  ELSE LET e1 == ProcessCompressionResults(e)
       IN  IF ~e1.frames[e.wslot].compress_pending
           THEN [e1 EXCEPT !.wait = "resume"]
           ELSE [e1 EXCEPT !.wait = "lock"]

\* WaitForCompression that goes to sleep without looking at the predicate
WaitForCompressionLockedNoPredicate(e) == [e EXCEPT !.wait = "sleep"]

\* Sync::WaitForCompression with _compress_mutex taken, at
\* _compress_done_cv.wait: the thread sleeps unless a result is queued or
\* shutdown is raised
WaitForCompressionLocked(e) ==
  IF e.results # <<>> \/ e.shutdown
  THEN WaitForCompressionLoop(e)
  ELSE [e EXCEPT !.wait = "sleep"]

\* Sync::WaitForCompression of the slot i where it may block: the queued
\* results are merged first, and the function returns when the slot is
\* not pending any more
WaitForCompressionEnter(e, i) ==
  IF ~e.async_compress \/ ~e.frames[i].compress_pending THEN e
  ELSE LET e1 == ProcessCompressionResults(e)
       IN  IF ~e1.frames[i].compress_pending
           THEN [e1 EXCEPT !.wait = "resume", !.wslot = i]
           ELSE [e1 EXCEPT !.wait = "lock", !.wslot = i]

\* Sync::CompressionThreadMain, the worker takes the oldest job
CompressionThreadTake(e) ==
  [e EXCEPT !.wjob = Head(e.jobs), !.jobs = Tail(e.jobs)]

\* CompressionThreadMain that queues the result of a job without looking at
\* _compress_shutdown
CompressionThreadPublishAfterShutdown(e) ==
  LET job == e.wjob
      data == LZ4_compress_fast(FastMemcpy(e.frames[job.state].buf.data,
                                           job.input_size))
      compressed_buf == [id |-> Malloc(e, {}), data |-> data]
  IN  [HeapMalloc(e, compressed_buf.id)
         EXCEPT !.results = Append(@, [state |-> job.state,
                                       input |-> job.input,
                                       input_size |-> job.input_size,
                                       frame |-> job.frame,
                                       compressed_buf |-> compressed_buf,
                                       compressed_size |-> Len(data)]),
                !.wjob = NoJob]

\* Sync::CompressionThreadMain, the worker compresses the input of its job
\* and queues the result; on shutdown it frees the compressed buffer and
\* clears the pending flag of the slot instead.  The input is read through
\* the pointer kept in the job: reading it after the slot has let go of
\* that buffer is undefined behaviour.  notify_all on _compress_done_cv
\* wakes the simulation thread when it sleeps in WaitForCompression.
CompressionThreadPublish(e) ==
  LET job == e.wjob
      max_compressed == LZ4_compressBound(job.input_size)
      data == IF max_compressed > 0
              THEN LZ4_compress_fast(FastMemcpy(e.frames[job.state].buf.data,
                                                job.input_size))
              ELSE <<>>
      compressed_buf == IF max_compressed > 0
                        THEN [id |-> Malloc(e, {}), data |-> data]
                        ELSE NULL
  IN  IF e.frames[job.state].buf.id # job.input
      THEN [e EXCEPT !.ub = TRUE]
      ELSE IF e.shutdown
      THEN [Free(HeapMalloc(e, compressed_buf.id), compressed_buf.id)
              EXCEPT !.frames[job.state].compress_pending = FALSE,
                     !.wjob = NoJob,
                     !.wait = IF @ = "sleep" THEN "awake" ELSE @]
      ELSE [HeapMalloc(e, compressed_buf.id)
              EXCEPT !.results = Append(@, [state |-> job.state,
                                            input |-> job.input,
                                            input_size |-> job.input_size,
                                            frame |-> job.frame,
                                            compressed_buf |-> compressed_buf,
                                            compressed_size |-> Len(data)]),
                     !.results_max = IF Len(e.results) + 1 > @
                                     THEN Len(e.results) + 1 ELSE @,
                     !.wjob = NoJob,
                     !.wait = IF @ = "sleep" THEN "awake" ELSE @]

\* FreeSavedFrameBuffer that hands every buffer to the pool
FreeSavedFrameBufferToPool(e, i) ==
  IF e.frames[i].buf.id = 0 THEN e
  ELSE LET e1 == IF e.frames[i].compress_pending THEN WaitForCompression(e, i) ELSE e
           state == e1.frames[i]
           e2 == RecycleStateBuffer(e1, state.buf, state.buf_capacity)
       IN  [e2 EXCEPT !.frames[i] =
              [@ EXCEPT !.buf = NULL, !.cbuf = 0, !.uncompressed_size = 0,
                        !.buf_capacity = 0, !.compressed = FALSE,
                        !.delta = FALSE, !.compress_pending = FALSE]]

\* Sync::FreeSavedFrameBuffer
FreeSavedFrameBuffer(e, i) ==
  IF e.frames[i].buf.id = 0 THEN e
  ELSE LET e1 == IF e.frames[i].compress_pending THEN WaitForCompression(e, i) ELSE e
           state == e1.frames[i]
           e2 == IF state.compressed \/ state.delta
                 THEN Free(e1, state.buf.id)
                 ELSE RecycleStateBuffer(e1, state.buf, state.buf_capacity)
       IN  [e2 EXCEPT !.frames[i] =
              [@ EXCEPT !.buf = NULL, !.cbuf = 0, !.uncompressed_size = 0,
                        !.buf_capacity = 0, !.compressed = FALSE,
                        !.delta = FALSE, !.compress_pending = FALSE]]

\* Sync::StopCompressionThread up to its join: without a worker it only
\* resets the queues; with one it raises _compress_shutdown and waits
StopCompressionThreadBegin(e) ==
  IF ~e.thread
  THEN [e EXCEPT !.async_compress = FALSE, !.shutdown = FALSE,
                 !.jobs = <<>>, !.results = <<>>,
                 !.jobs_max = 0, !.results_max = 0, !.pc = "stopped"]
  ELSE [e EXCEPT !.shutdown = TRUE, !.pc = "join"]

\* Sync::CompressionThreadMain returns: shutdown is raised and no job is left
CompressionThreadExit(e) == [e EXCEPT !.wexit = TRUE]

\* the loop of Sync::StopCompressionThread that frees the queued results
RECURSIVE FreeResults(_, _)
FreeResults(e, results) ==
  IF results = <<>> THEN e
  ELSE FreeResults(Free(e, Head(results).compressed_buf.id), Tail(results))

\* StopCompressionThread after its join, keeping the payloads of the
\* results that were never applied
StopCompressionThreadEndKeepsResults(e) ==
  LET pending == {e.jobs[k].state : k \in 1 .. Len(e.jobs)}
                   \cup {e.results[k].state : k \in 1 .. Len(e.results)}
  IN  [e EXCEPT !.frames = [i \in Slots |->
                              IF i \in pending
                              THEN [e.frames[i] EXCEPT !.compress_pending = FALSE]
                              ELSE e.frames[i]],
                !.jobs = <<>>, !.results = <<>>, !.shutdown = FALSE,
                !.jobs_max = 0, !.results_max = 0,
                !.async_compress = FALSE, !.thread = FALSE, !.pc = "stopped"]

\* Sync::StopCompressionThread after its join: the slots of the jobs and
\* results left in the queues are no longer pending, the payloads of the
\* results are freed and the queues emptied
StopCompressionThreadEnd(e) ==
  LET pending == {e.jobs[k].state : k \in 1 .. Len(e.jobs)}
                   \cup {e.results[k].state : k \in 1 .. Len(e.results)}
      e1 == FreeResults(e, e.results)
  IN  [e1 EXCEPT !.frames = [i \in Slots |->
                               IF i \in pending
                               THEN [e1.frames[i] EXCEPT !.compress_pending = FALSE]
                               ELSE e1.frames[i]],
                 !.jobs = <<>>, !.results = <<>>, !.shutdown = FALSE,
                 !.jobs_max = 0, !.results_max = 0,
                 !.async_compress = FALSE, !.thread = FALSE, !.pc = "stopped"]

\* Sync::ClearStateBufferPool (a free callback is always configured)
RECURSIVE ClearStateBufferPool(_)
ClearStateBufferPool(e) ==
  IF e.pool = <<>> THEN [e EXCEPT !.hint = 0]
  ELSE ClearStateBufferPool(
         [FreeBuffer(e, Head(e.pool).id) EXCEPT !.pool = Tail(e.pool)])

\* the loop of Sync::~Sync over the slots i .. RingSize - 1
RECURSIVE FreeSavedFrames(_, _)
FreeSavedFrames(e, i) ==
  IF i >= RingSize THEN e
  ELSE FreeSavedFrames(FreeSavedFrameBuffer(e, i), i + 1)

\* Sync::~Sync after its StopCompressionThread, leaving the pool as it is
SyncDeleteKeepsPool(e) ==
  [FreeSavedFrames(e, 0) EXCEPT !.pc = "destroyed"]

\* Sync::~Sync after its StopCompressionThread: every slot and the pool
\* are released.  The three scratch buffers belong to the object alone and
\* are freed with it; they are not on the modelled heap.
SyncDelete(e) ==
  [ClearStateBufferPool(FreeSavedFrames(e, 0)) EXCEPT !.pc = "destroyed"]

(***************************************************************************)
(* Save and load.                                                          *)
(***************************************************************************)
\* the delta statistics block at the end of Sync::SaveCurrentFrame
UpdateDeltaStats(e, i) ==
  LET state == e.frames[i]
      r0    == IF state.uncompressed_size > 0
               THEN (state.cbuf * 100) \div state.uncompressed_size ELSE 0
      ratio == IF r0 > 100 THEN 100 ELSE r0
  IN  IF state.delta
      THEN [e EXCEPT !.delta_stats.delta_ratio_last = ratio,
                     !.delta_stats.delta_ratio_max = IF ratio > @ THEN ratio ELSE @,
                     !.delta_stats.delta_bytes_sum = @ + state.cbuf,
                     !.delta_stats.delta_raw_bytes_sum = @ + state.uncompressed_size,
                     !.delta_stats.delta_frames = @ + 1]
      ELSE [e EXCEPT !.delta_stats.keyframes = @ + 1]

\* Sync::GetStateStats: the statistics it writes into *stats
GetStateStats(e) ==
  LET avg == IF e.delta_stats.delta_raw_bytes_sum > 0
             THEN (e.delta_stats.delta_bytes_sum * 100)
                    \div e.delta_stats.delta_raw_bytes_sum
             ELSE 0
  IN  [delta_frames |-> e.delta_stats.delta_frames,
       keyframes |-> e.delta_stats.keyframes,
       delta_ratio_last |-> e.delta_stats.delta_ratio_last,
       delta_ratio_max |-> e.delta_stats.delta_ratio_max,
       delta_ratio_avg |-> IF avg > 100 THEN 100 ELSE avg,
       compress_job_queue_len |-> Len(e.jobs),
       compress_result_queue_len |-> Len(e.results),
       compress_job_queue_max |-> e.jobs_max,
       compress_result_queue_max |-> e.results_max,
       compress_pending_count |->
         Cardinality({i \in Slots : e.frames[i].compress_pending})]

\* Sync::SaveCurrentFrame, the slot at head is released
SaveFreeSlot(e) ==
  IF e.frames[e.head].buf.id # 0 THEN FreeSavedFrameBuffer(e, e.head) ELSE e

\* Sync::SaveCurrentFrame, the save callback and the bookkeeping after it.
\* cb is what the callback does: cb.data are the bytes of the simulation
\* state, cb.own tells whether it allocates its own buffer or fills the
\* one it is handed, cb.ok is its result (which is not looked at); a
\* callback that fails leaves the buffer and the length it was handed.
SaveCallback(e, reuse_buffer, reuse_capacity, cb, frame) ==
  LET fills == reuse_buffer.id # 0 /\ ~cb.own /\ Len(cb.data) <= reuse_capacity
      buf   == IF ~cb.ok THEN reuse_buffer
               ELSE IF fills
               THEN [id |-> reuse_buffer.id,
                     data |-> cb.data \o SubSeq(reuse_buffer.data, Len(cb.data) + 1,
                                                Len(reuse_buffer.data))]
               ELSE [id |-> Malloc(e, {}), data |-> cb.data]
      cbuf  == IF cb.ok THEN Len(cb.data) ELSE reuse_capacity
      e1    == IF buf.id # reuse_buffer.id THEN HeapCallback(e, buf.id) ELSE e
      e2    == IF reuse_buffer.id # 0 /\ buf.id # reuse_buffer.id
               THEN RecycleStateBuffer(e1, reuse_buffer, reuse_capacity)
               ELSE e1
  IN  [e2 EXCEPT !.frames[e.head] =
                   [buf |-> buf, cbuf |-> cbuf,
                    uncompressed_size |-> cbuf,
                    buf_capacity |-> IF buf.id = reuse_buffer.id
                                     THEN reuse_capacity ELSE cbuf,
                    frame |-> frame,
                    compressed |-> FALSE, delta |-> FALSE,
                    compress_pending |-> FALSE],
                 !.hint = IF cbuf > @ THEN cbuf ELSE @]

\* Sync::SaveCurrentFrame, the snapshot is stored into the slot at head
SaveStore(e, cb, frame) ==
  LET acq == AcquireStateBuffer(e)
  IN  SaveCallback(acq.e, acq.buf, acq.capacity, cb, frame)

\* SaveDelta that does not compare the size of the last state with the size
\* of the new snapshot
SaveDeltaAnySize(e) ==
  LET i == e.head
      state == e.frames[i]
      can_delta == /\ e.last_state.valid
                   /\ e.last_state.frame = state.frame - 1
      keyframe  == (state.frame % GGPO_STATE_KEYFRAME_INTERVAL) = 0
      delta_buf == Malloc(e, {})
      size == Min({state.uncompressed_size, e.last_state.size})
      e4 == UpdateLastState(e, state.buf, state.uncompressed_size, state.frame)
  IN  IF can_delta /\ ~keyframe
      THEN [RecycleStateBuffer(HeapMalloc(e4, delta_buf), state.buf,
                               state.buf_capacity)
              EXCEPT !.frames[i].delta = TRUE,
                     !.frames[i].buf =
                       [id |-> delta_buf,
                        data |-> XorBuffers(state.buf.data, e.last_state.data, size)],
                     !.frames[i].cbuf = size,
                     !.frames[i].uncompressed_size = size,
                     !.frames[i].buf_capacity = size,
                     !.frames[i].compressed = FALSE]
      ELSE e4

\* SaveDelta that makes no keyframes: every frame that follows the last
\* state with its size is stored as a delta
SaveDeltaNoKeyframe(e) ==
  LET i == e.head
      state == e.frames[i]
      can_delta == /\ e.last_state.valid
                   /\ e.last_state.size = state.uncompressed_size
                   /\ e.last_state.frame = state.frame - 1
      delta_buf == Malloc(e, {})
      e4 == UpdateLastState(e, state.buf, state.uncompressed_size, state.frame)
  IN  IF can_delta
      THEN [RecycleStateBuffer(HeapMalloc(e4, delta_buf), state.buf,
                               state.buf_capacity)
              EXCEPT !.frames[i].delta = TRUE,
                     !.frames[i].buf =
                       [id |-> delta_buf,
                        data |-> XorBuffers(state.buf.data, e.last_state.data,
                                            state.uncompressed_size)],
                     !.frames[i].cbuf = state.uncompressed_size,
                     !.frames[i].buf_capacity = state.uncompressed_size,
                     !.frames[i].compressed = FALSE]
      ELSE e4

\* Sync::SaveCurrentFrame, the delta decision: a frame that follows the
\* last state, has its size and is no keyframe is stored as the XOR
\* against the last state
SaveDelta(e) ==
  LET i == e.head
      state == e.frames[i]
      can_delta == /\ e.last_state.valid
                   /\ e.last_state.size = state.uncompressed_size
                   /\ e.last_state.frame = state.frame - 1
      keyframe  == (state.frame % GGPO_STATE_KEYFRAME_INTERVAL) = 0
      delta_buf == Malloc(e, {})
      e4 == UpdateLastState(e, state.buf, state.uncompressed_size, state.frame)
  IN  IF can_delta /\ ~keyframe
      THEN [RecycleStateBuffer(HeapMalloc(e4, delta_buf), state.buf,
                               state.buf_capacity)
              EXCEPT !.frames[i].delta = TRUE,
                     !.frames[i].buf =
                       [id |-> delta_buf,
                        data |-> XorBuffers(state.buf.data, e.last_state.data,
                                            state.uncompressed_size)],
                     !.frames[i].cbuf = state.uncompressed_size,
                     !.frames[i].buf_capacity = state.uncompressed_size,
                     !.frames[i].compressed = FALSE]
      ELSE e4

\* Sync::SaveCurrentFrame, the compression of the slot at head: queued for
\* the worker, or done in place when it cannot be queued
SaveCompress(e) ==
  LET q == QueueCompression(e, e.head, e.frames[e.head].buf,
                            e.frames[e.head].uncompressed_size)
  IN  IF q.ok THEN q.e
      ELSE CompressSync(e, e.head, e.frames[e.head].buf,
                        e.frames[e.head].uncompressed_size)

\* Sync::SaveCurrentFrame, the statistics and the advance of head
SaveAdvanceHead(e) ==
  [UpdateDeltaStats(e, e.head) EXCEPT !.head = (e.head + 1) % RingSize]

\* Sync::SaveCurrentFrame.  Writing frames[head] with head outside the ring
\* is undefined behaviour: the engine is marked ub.  A call that had to wait
\* in WaitForCompression (wait = "resume") is done when it returns.
SaveCurrentFrame(e, cb) ==
  LET e0 == ProcessCompressionResults(e)
  IN  IF e0.head \notin Slots THEN [e0 EXCEPT !.ub = TRUE]
      ELSE [SaveAdvanceHead(
              SaveCompress(SaveDelta(SaveStore(SaveFreeSlot(e0), cb, e.framecount))))
              EXCEPT !.wait = "none"]

\* Sync::SaveCurrentFrame has to wait for the worker before it can reuse the
\* slot at head
SaveCurrentFrameBlocks(e) ==
  /\ e.head \in Slots
  /\ e.frames[e.head].buf.id # 0
  /\ WaitForCompressionBlocks(e, e.head)

LoadFailed(e) == [ok |-> FALSE, e |-> e, called |-> FALSE, loaded |-> <<>>]

\* the tail of Sync::LoadFrame once the bytes are decoded: the load
\* callback, UpdateLastState, _framecount and head
LoadDecoded(e, head, bytes, size) ==
  LET state == e.frames[head]
      e1 == UpdateLastState(e, [id |-> state.buf.id, data |-> bytes], size, state.frame)
  IN  [ok |-> TRUE, called |-> TRUE, loaded |-> FastMemcpy(bytes, size),
       e |-> [e1 EXCEPT !.framecount = state.frame,
                        !.head = (head + 1) % RingSize]]

\* Sync::LoadFrame: ok is its result, called whether the load callback was
\* invoked and loaded the bytes it was handed
LoadFrame(e, frame) ==
  IF frame = e.framecount
  THEN [ok |-> TRUE, e |-> e, called |-> FALSE, loaded |-> <<>>]
  ELSE LET head == FindSavedFrameIndex(e, frame)
           e1   == [e EXCEPT !.head = head]
       IN  IF head < 0 THEN LoadFailed(e1)
           ELSE LET state == e.frames[head]
                IN  IF state.buf.id = 0 \/ state.cbuf = 0 THEN LoadFailed(e1)
                    ELSE IF state.delta
                    THEN LET r == ReconstructFrameInternal(e1, frame)
                         IN  IF ~r.ok THEN LoadFailed(e1)
                             ELSE LoadDecoded(e1, head, r.data, state.uncompressed_size)
                    ELSE IF state.compressed
                    THEN IF state.uncompressed_size <= 0 THEN LoadFailed(e1)
                         ELSE LET d == LZ4_decompress_safe(state.buf.data, state.cbuf,
                                                           state.uncompressed_size)
                              IN  IF d.n # state.uncompressed_size THEN LoadFailed(e1)
                                  ELSE LoadDecoded(e1, head, d.data,
                                                   state.uncompressed_size)
                    ELSE LoadDecoded(e1, head, state.buf.data, state.cbuf)

(***************************************************************************)
(* Sync engine: inputs, frame advance and rollback.                        *)
(***************************************************************************)
Players == 0 .. (NumPlayers - 1)

\* Sync::ResetPrediction
ResetPrediction(e, frameNumber) ==
  [e EXCEPT !.input_queues =
     [i \in Players |-> InputQueue_ResetPrediction(e.input_queues[i], frameNumber)]]

\* Sync::SetLastConfirmedFrame (the queues drop inputs they no longer need;
\* the dropped inputs are not part of the queue model)
SetLastConfirmedFrame(e, frame) == [e EXCEPT !.last_confirmed_frame = frame]

\* AddLocalInput with the barrier one frame late: the frame count is
\* compared with > where the code has >=
AddLocalInputLateBarrier(e, queue, cb) ==
  IF e.framecount > e.max_prediction_frames
     /\ e.framecount - e.last_confirmed_frame >= e.max_prediction_frames
  THEN [ok |-> FALSE, e |-> e, stamped |-> NullFrame]
  ELSE [ok |-> TRUE, stamped |-> e.framecount,
        e |-> [(IF e.framecount = 0 THEN SaveCurrentFrame(e, cb) ELSE e)
                 EXCEPT !.input_queues[queue] =
                          InputQueue_AddInput(@, e.framecount, FALSE)]]

\* Sync::AddLocalInput: ok is its result, stamped the frame written into the
\* input (NullFrame when the input is left alone)
AddLocalInput(e, queue, cb) ==
  LET frames_behind == e.framecount - e.last_confirmed_frame
  IN  IF e.framecount >= e.max_prediction_frames
         /\ frames_behind >= e.max_prediction_frames
      THEN [ok |-> FALSE, e |-> e, stamped |-> NullFrame]
      ELSE LET e1 == IF e.framecount = 0 THEN SaveCurrentFrame(e, cb) ELSE e
           IN  [ok |-> TRUE, stamped |-> e1.framecount,
                e |-> [e1 EXCEPT !.input_queues[queue] =
                         InputQueue_AddInput(@, e1.framecount, FALSE)]]

\* Sync::AddRemoteInput
AddRemoteInput(e, queue, frame, differs) ==
  [e EXCEPT !.input_queues[queue] = InputQueue_AddInput(@, frame, differs)]

\* Sync::SynchronizeInputs (no peer is disconnected)
SynchronizeInputs(e) ==
  [e EXCEPT !.input_queues =
     [i \in Players |-> InputQueue_GetInput(e.input_queues[i], e.framecount)]]

\* Sync::IncrementFrame
IncrementFrame(e, cb) ==
  SaveCurrentFrame([e EXCEPT !.framecount = @ + 1], cb)

\* CheckSimulationConsistency that lets the last queue reporting a frame
\* decide instead of the least frame reported
CheckSimulationConsistencyLastQueue(e) ==
  LET reporting == {i \in Players :
                      InputQueue_GetFirstIncorrectFrame(e.input_queues[i]) # NullFrame}
      last == CHOOSE i \in reporting : \A j \in reporting : j <= i
  IN  IF reporting = {} THEN [ok |-> TRUE, seek |-> NullFrame]
      ELSE [ok |-> FALSE,
            seek |-> InputQueue_GetFirstIncorrectFrame(e.input_queues[last])]

\* Sync::CheckSimulationConsistency: ok is its result, seek what it leaves
\* in *seekTo (NullFrame: untouched)
CheckSimulationConsistency(e) ==
  LET reported == {InputQueue_GetFirstIncorrectFrame(e.input_queues[i]) : i \in Players}
                    \ {NullFrame}
  IN  IF reported = {} THEN [ok |-> TRUE, seek |-> NullFrame]
      ELSE [ok |-> FALSE, seek |-> Min(reported)]

NoAdjust == [active |-> FALSE, framecount |-> 0, count |-> 0, i |-> 0]

\* the end of AdjustSimulation without _rollingback = false
AdjustSimulationEndStillRollingBack(e) == [e EXCEPT !.adj = NoAdjust]

\* Sync::AdjustSimulation after its replay loop
AdjustSimulationEnd(e) ==
  [e EXCEPT !.rollingback = FALSE, !.adj = NoAdjust]

\* AdjustSimulation whose failure path returns without ResetPrediction
AdjustSimulationBeginNoReset(e, seek_to) ==
  LET r == LoadFrame([e EXCEPT !.rollingback = TRUE], seek_to)
  IN  IF ~r.ok \/ r.e.framecount # seek_to
      THEN [r EXCEPT !.e.rollingback = FALSE]
      ELSE IF e.framecount - seek_to > 0
      THEN [r EXCEPT !.e = [ResetPrediction(r.e, r.e.framecount) EXCEPT !.adj =
              [active |-> TRUE, framecount |-> e.framecount,
               count |-> e.framecount - seek_to, i |-> 0]]]
      ELSE [r EXCEPT !.e = AdjustSimulationEnd(ResetPrediction(r.e, r.e.framecount))]

\* AdjustSimulation that clears the predictions of no input queue
AdjustSimulationBeginKeepsPredictions(e, seek_to) ==
  LET r == LoadFrame([e EXCEPT !.rollingback = TRUE], seek_to)
  IN  IF ~r.ok \/ r.e.framecount # seek_to
      THEN [r EXCEPT !.e.rollingback = FALSE]
      ELSE IF e.framecount - seek_to > 0
      THEN [r EXCEPT !.e.adj =
              [active |-> TRUE, framecount |-> e.framecount,
               count |-> e.framecount - seek_to, i |-> 0]]
      ELSE [r EXCEPT !.e = AdjustSimulationEnd(r.e)]

\* Sync::AdjustSimulation up to its first advance_frame callback.  The
\* locals framecount, count and i live in adj while the replay loop runs.
AdjustSimulationBegin(e, seek_to) ==
  LET framecount == e.framecount
      count == e.framecount - seek_to
      r  == LoadFrame([e EXCEPT !.rollingback = TRUE], seek_to)
  IN  IF ~r.ok \/ r.e.framecount # seek_to
      THEN [r EXCEPT !.e = [ResetPrediction(r.e, seek_to) EXCEPT !.rollingback = FALSE]]
      ELSE LET e1 == ResetPrediction(r.e, r.e.framecount)
           IN  IF count > 0
               THEN [r EXCEPT !.e = [e1 EXCEPT !.adj =
                       [active |-> TRUE, framecount |-> framecount,
                        count |-> count, i |-> 0]]]
               ELSE [r EXCEPT !.e = AdjustSimulationEnd(e1)]

\* one turn of the replay loop of Sync::AdjustSimulation: the advance_frame
\* callback steps the simulation and calls IncrementFrame; after the last
\* turn the function returns (that _framecount == framecount holds there is
\* checked as a property, not assumed)
AdjustSimulationAdvance(e, cb) ==
  LET e1 == IncrementFrame(e, cb)
      e2 == [e1 EXCEPT !.adj.i = @ + 1]
  IN  IF e2.adj.i < e2.adj.count THEN e2 ELSE AdjustSimulationEnd(e2)

(***************************************************************************)
(* The engine after Sync::Sync and Sync::Init.  The constructor's memset   *)
(* of _savedstate zeroes every slot, frame number included.                *)
(***************************************************************************)
SyncNew(async_compress) ==
  [frames |-> [i \in Slots |-> [SavedFrame EXCEPT !.frame = 0]],
   head |-> 0,
   framecount |-> 0,
   rollingback |-> FALSE,
   last_confirmed_frame |-> -1,
   max_prediction_frames |-> MAX_PREDICTION_FRAMES,
   last_state |-> [data |-> <<>>, size |-> 0, frame |-> -1, valid |-> FALSE],
   delta_stats |-> [delta_bytes_sum |-> 0, delta_raw_bytes_sum |-> 0,
                    delta_frames |-> 0, keyframes |-> 0,
                    delta_ratio_last |-> 0, delta_ratio_max |-> 0],
   pool |-> <<>>,
   hint |-> 0,
   free_buffer |-> TRUE,
   async_compress |-> async_compress,
   thread |-> async_compress,
   shutdown |-> FALSE,
   jobs |-> <<>>,
   results |-> <<>>,
   jobs_max |-> 0,
   results_max |-> 0,
   wjob |-> NoJob,
   wexit |-> FALSE,
   pc |-> "run",
   wait |-> "none",
   wslot |-> -1,
   mallocs |-> {},
   cbufs |-> {},
   heap_fault |-> "none",
   input_queues |-> [i \in Players |-> InputQueue],
   adj |-> NoAdjust,
   ub |-> FALSE]

(***************************************************************************)
(* The rewind arena of state_manager.c.  The arena is an array of cells;   *)
(* an offset or a size takes sizeof(size_t) cells and a byte one cell.     *)
(* The cells that malloc returned keep the same unknown word until they    *)
(* are written.  Six fields are history and not read by the code: stack    *)
(* (the snapshots pushed and neither popped nor evicted, oldest first),    *)
(* records (the cells of each record between tail and head, oldest         *)
(* first), starts (the offset at which each of them starts), clobbered (a  *)
(* push has written into a cell of such a record),                         *)
(* written (the cells written so far) and fault (the first step outside    *)
(* defined behaviour: a read of a cell never written, an access past the   *)
(* arena, an eviction loop that never ends).                               *)
(***************************************************************************)
\* sizeof(size_t), in cells
SizeT == 1

STATE_DELTA_FLAG_RAW == 1

STATE_DELTA_HEADER_SIZE == SizeT * 2

\* the size of the state that the core serializes
RewindStateSize == 4

state_manager_raw_maxsize(uncomp) ==
  STATE_DELTA_HEADER_SIZE + LZ4_compressBound(uncomp)

\* the patch that takes dst to src: its header and its payload
state_manager_raw_compress(src, dst, len) ==
  LET scratch == XorBuffers(src, dst, len)
      compressed == LZ4_compress_fast(scratch)
  IN  IF Len(compressed) > 0 /\ Len(compressed) < len
      THEN <<Len(compressed), 0>> \o compressed
      ELSE <<len, STATE_DELTA_FLAG_RAW>> \o scratch

\* the arena and the blocks after state_manager_new
state_manager_new(state_size, buffer_size, garbage) ==
  LET block_size == ((state_size + 1) \div 2) * 2
  IN  [data |-> [p \in 0 .. buffer_size - 1 |-> garbage],
       capacity |-> buffer_size,
       blocksize |-> block_size,
       maxcompsize |-> state_manager_raw_maxsize(block_size) + SizeT * 2,
       head |-> SizeT,
       tail |-> SizeT,
       thisblock |-> [i \in 1 .. block_size |-> 0],
       nextblock |-> [i \in 1 .. block_size |-> 0],
       thisblock_valid |-> FALSE,
       entries |-> 0,
       garbage |-> garbage,
       stack |-> <<>>,
       records |-> <<>>,
       starts |-> <<>>,
       clobbered |-> FALSE,
       written |-> {},
       fault |-> "none"]

\* the first fault is kept
Fault(st, what) == IF st.fault = "none" THEN [st EXCEPT !.fault = what] ELSE st

read_size_t(st, ptr) ==
  IF ptr \in 0 .. st.capacity - 1 THEN st.data[ptr] ELSE st.garbage

\* the arena after a read of the cell at ptr
ReadCheck(st, ptr) ==
  IF ptr \notin 0 .. st.capacity - 1 THEN Fault(st, "read past the arena")
  ELSE IF ptr \notin st.written THEN Fault(st, "read of a cell never written")
  ELSE st

\* the arena after the words of seq were stored from the cell at ptr on
WriteCells(st, ptr, seq) ==
  LET cells == ptr .. ptr + Len(seq) - 1
      st1 == IF cells \subseteq 0 .. st.capacity - 1 THEN st
             ELSE Fault(st, "write past the arena")
  IN  [st1 EXCEPT !.data = [p \in 0 .. st.capacity - 1 |->
                              IF p \in cells THEN seq[p - ptr + 1] ELSE st.data[p]],
                  !.written = @ \cup (cells \cap 0 .. st.capacity - 1)]

write_size_t(st, ptr, val) == WriteCells(st, ptr, <<val>>)

\* state_manager_raw_decompress of the patch at the cell patch onto data
state_manager_raw_decompress(st, patch, data, len) ==
  LET payload_size == read_size_t(st, patch)
      flags == read_size_t(st, patch + SizeT)
      payload == [i \in 1 .. payload_size |->
                    read_size_t(st, patch + STATE_DELTA_HEADER_SIZE + i - 1)]
  IN  IF flags % 2 = STATE_DELTA_FLAG_RAW
      THEN IF payload_size # len THEN [ok |-> FALSE, data |-> data]
           ELSE [ok |-> TRUE, data |-> XorBuffers(data, payload, len)]
      ELSE LET d == LZ4_decompress_safe(payload, payload_size, len)
           IN  IF d.n # len THEN [ok |-> FALSE, data |-> data]
               ELSE [ok |-> TRUE, data |-> XorBuffers(data, d.data, len)]

\* the cells that state_manager_raw_decompress reads of the patch at patch
PatchCells(st, patch) ==
  patch .. patch + STATE_DELTA_HEADER_SIZE + read_size_t(st, patch) - 1

\* the arena after the reads of state_manager_raw_decompress
PatchCheck(st, patch) ==
  IF ~(PatchCells(st, patch) \subseteq 0 .. st.capacity - 1)
  THEN Fault(st, "read past the arena")
  ELSE IF ~(PatchCells(st, patch) \subseteq st.written)
  THEN Fault(st, "read of a cell never written")
  ELSE st

\* state_manager_pop: the arena after the call, its result, and the block
\* that *data points to
state_manager_pop(st) ==
  IF st.thisblock_valid
  THEN [st |-> [st EXCEPT !.thisblock_valid = FALSE, !.entries = @ - 1],
        ok |-> TRUE, data |-> st.thisblock]
  ELSE IF st.head = st.tail
  THEN [st |-> st, ok |-> FALSE, data |-> st.thisblock]
  ELSE LET start == read_size_t(st, st.head - SizeT)
           st1 == [ReadCheck(st, st.head - SizeT) EXCEPT !.head = start]
           d == state_manager_raw_decompress(st1, start + SizeT, st.thisblock,
                                             st.blocksize)
           st2 == PatchCheck(st1, start + SizeT)
       IN  IF ~d.ok
           THEN [st |-> st2, ok |-> FALSE, data |-> st.thisblock]
           ELSE [st |-> [st2 EXCEPT !.thisblock = d.data, !.entries = @ - 1,
                                    !.records = IF @ = <<>> THEN @
                                                ELSE SubSeq(@, 1, Len(@) - 1),
                                    !.starts = IF @ = <<>> THEN @
                                               ELSE SubSeq(@, 1, Len(@) - 1)],
                 ok |-> TRUE, data |-> d.data]

\* state_manager_push_where: the last pushed state has to be at hand
\* uncompressed; the caller then writes the new state into nextblock
state_manager_push_where(st) ==
  IF ~st.thisblock_valid
  THEN LET r == state_manager_pop(st)
       IN  IF r.ok
           THEN [r.st EXCEPT !.thisblock_valid = TRUE, !.entries = @ + 1]
           ELSE r.st
  ELSE st

\* what is left between head and tail, as push_do computes it
Remaining(st) ==
  ((st.tail + st.capacity - SizeT - st.head - 1) % st.capacity) + 1

\* tail leaves the oldest record, and the oldest snapshot is given up with
\* it; with no record between tail and head there is none to give up
Evicted(st) ==
  [st EXCEPT !.stack = IF st.head = st.tail \/ @ = <<>> THEN @ ELSE Tail(@),
             !.records = IF st.head = st.tail \/ @ = <<>> THEN @ ELSE Tail(@),
             !.starts = IF st.head = st.tail \/ @ = <<>> THEN @ ELSE Tail(@)]

\* the cells of the records between tail and head
RetainedCells(st) == UNION {st.records[k] : k \in 1 .. Len(st.records)}

\* the recheckcapacity loop of state_manager_push_do; a loop that has run
\* once per cell of the arena comes back to a tail it had and never ends
RECURSIVE PushEvict(_, _)
PushEvict(st, turns) ==
  IF Remaining(st) > st.maxcompsize THEN st
  ELSE IF turns >= st.capacity \/ st.tail \notin 0 .. st.capacity - 1
  THEN Fault(st, "eviction loop without end")
  ELSE PushEvict([Evicted(ReadCheck(st, st.tail))
                    EXCEPT !.tail = read_size_t(st, st.tail),
                           !.entries = @ - 1],
                 turns + 1)

\* state_manager_push_do after its loop: the patch is written behind head,
\* head wraps when another patch might not fit, and the two offsets that
\* link the records are stored
PushRecord(st) ==
  LET patch == state_manager_raw_compress(st.thisblock, st.nextblock, st.blocksize)
      st1 == WriteCells(st, st.head + SizeT, patch)
      past == st.head + SizeT + Len(patch)
      wrap == past + st.maxcompsize > st.capacity
      compressed == IF wrap THEN 0 ELSE past
      st2 == IF wrap /\ st1.tail = SizeT
             THEN [Evicted(ReadCheck(st1, st1.tail))
                     EXCEPT !.tail = read_size_t(st1, st1.tail)]
             ELSE st1
      st3 == write_size_t(st2, compressed, st.head)
      st4 == write_size_t(st3, st.head, compressed + SizeT)
      cells == (st.head .. past - 1) \cup (compressed .. compressed + SizeT - 1)
  IN  [st4 EXCEPT !.head = compressed + SizeT,
                  !.clobbered = @ \/ (cells \cap RetainedCells(st2) # {}),
                  !.records = Append(@, cells),
                  !.starts = Append(@, st.head)]

\* the end of state_manager_push_do: the blocks are swapped
PushSwap(st) ==
  [st EXCEPT !.thisblock = st.nextblock,
             !.nextblock = st.thisblock,
             !.entries = @ + 1,
             !.stack = Append(@, st.nextblock)]

\* state_manager_push_do
state_manager_push_do(st) ==
  IF st.thisblock_valid
  THEN IF st.capacity < SizeT + st.maxcompsize THEN st
       ELSE LET st1 == PushEvict(st, 0)
            IN  IF st1.fault = "eviction loop without end" THEN st1
                ELSE PushSwap(PushRecord(st1))
  ELSE PushSwap([st EXCEPT !.thisblock_valid = TRUE])

\* the core serializes its state into the block that push_where returned
Serialize(st, state) ==
  [st EXCEPT !.nextblock = [i \in 1 .. st.blocksize |->
                              IF i <= Len(state) THEN state[i] ELSE @[i]]]

(***************************************************************************)
(* The rendezvous server of rendezvous_server.c.  A packet is a sequence   *)
(* of characters, an address an IPv4 address with a port, and time the     *)
(* value of time(NULL).  The table holds MAX_ROOMS rooms, a room name      *)
(* buffer ROOM_NAME_MAX characters and a side times out after              *)
(* ROOM_TIMEOUT_SEC seconds; the three are 128, 64 and 30 in the source    *)
(* and scaled down here.                                                   *)
(***************************************************************************)
MAX_ROOMS == 2

ROOM_NAME_MAX == 3

ROOM_TIMEOUT_SEC == 1

MAGIC == <<"R", "N", "D", "V", "1">>

\* the address of a zeroed struct sockaddr_in
NoAddr == [ip |-> 0, port |-> 0]

\* a room entry after memset and snprintf of its name
NewRoom(name) ==
  [name |-> name, has_host |-> FALSE, has_client |-> FALSE,
   host_addr |-> NoAddr, client_addr |-> NoAddr,
   host_seen |-> 0, client_seen |-> 0]

\* white space, which the directives of sscanf skip
RECURSIVE SkipSpace(_)
SkipSpace(s) ==
  IF s # <<>> /\ Head(s) = " " THEN SkipSpace(Tail(s)) ELSE s

\* the characters a %s directive of the given width takes from s
RECURSIVE TakeWord(_, _)
TakeWord(s, width) ==
  IF s = <<>> \/ Head(s) = " " \/ width = 0 THEN <<>>
  ELSE <<Head(s)>> \o TakeWord(Tail(s), width - 1)

\* a %s directive of sscanf with a field width: white space is skipped and
\* at most width characters that are not white space are stored
ScanString(s, width) ==
  LET t == SkipSpace(s)
      w == TakeWord(t, width)
  IN  [ok |-> w # <<>>, val |-> w, rest |-> SubSeq(t, Len(w) + 1, Len(t))]

\* white space followed by a %c directive: the next character that is not
\* white space is stored
ScanChar(s) ==
  LET t == SkipSpace(s)
  IN  IF t = <<>> THEN [ok |-> FALSE, val |-> "", rest |-> t]
      ELSE [ok |-> TRUE, val |-> Head(t), rest |-> Tail(t)]

\* sscanf(buf, "%5s %c %63s", magic, &role, room_name): n is its result
sscanf(buf) ==
  LET magic == ScanString(buf, Len(MAGIC))
      role  == ScanChar(magic.rest)
      room_name == ScanString(role.rest, ROOM_NAME_MAX - 1)
  IN  [n |-> IF ~magic.ok THEN 0 ELSE IF ~role.ok THEN 1
             ELSE IF ~room_name.ok THEN 2 ELSE 3,
       magic |-> magic.val, role |-> role.val, room_name |-> room_name.val]

\* find_or_create_room that tests the table for room only when it holds
\* more than MAX_ROOMS rooms
find_or_create_roomPastEnd(rooms, name) ==
  LET found == {i \in 1 .. Len(rooms) : rooms[i].name = name}
  IN  IF found # {} THEN [rooms |-> rooms, room |-> Min(found)]
      ELSE IF Len(rooms) > MAX_ROOMS THEN [rooms |-> rooms, room |-> 0]
      ELSE [rooms |-> Append(rooms, NewRoom(name)), room |-> Len(rooms) + 1]

\* find_or_create_room: room is the index of the room found or created,
\* 0 for NULL
find_or_create_room(rooms, name) ==
  LET found == {i \in 1 .. Len(rooms) : rooms[i].name = name}
  IN  IF found # {} THEN [rooms |-> rooms, room |-> Min(found)]
      ELSE IF Len(rooms) >= MAX_ROOMS THEN [rooms |-> rooms, room |-> 0]
      ELSE [rooms |-> Append(rooms, NewRoom(name)), room |-> Len(rooms) + 1]

\* prune_rooms that tests the client against host_seen
PruneSidesHostSeen(room, now) ==
  [room EXCEPT
     !.has_host = @ /\ ~(now - room.host_seen > ROOM_TIMEOUT_SEC),
     !.has_client = @ /\ ~(now - room.host_seen > ROOM_TIMEOUT_SEC)]

\* the first half of the loop body of prune_rooms: the sides of a room
\* that have been silent for more than ROOM_TIMEOUT_SEC are dropped
PruneSides(room, now) ==
  [room EXCEPT
     !.has_host = @ /\ ~(now - room.host_seen > ROOM_TIMEOUT_SEC),
     !.has_client = @ /\ ~(now - room.client_seen > ROOM_TIMEOUT_SEC)]

\* prune_rooms: the rooms left with neither side are removed and the rooms
\* behind them move up
RECURSIVE prune_rooms(_, _)
prune_rooms(rooms, now) ==
  IF rooms = <<>> THEN <<>>
  ELSE LET room == PruneSides(Head(rooms), now)
       IN  IF ~room.has_host /\ ~room.has_client
           THEN prune_rooms(Tail(rooms), now)
           ELSE <<room>> \o prune_rooms(Tail(rooms), now)

\* send_wait: the datagram handed to sendto
send_wait(to, room) == [to |-> to, msg |-> <<"WAIT", room>>]

\* send_peer: the datagram handed to sendto
send_peer(to, peer) == [to |-> to, msg |-> <<"PEER", peer.ip, peer.port>>]

\* the end of the loop body of main: the sender is recorded as the host or
\* the client of the room and the replies are sent
Register(rooms, i, role, room_name, from, now) ==
  LET r1 == IF role = "H"
            THEN [rooms EXCEPT ![i].host_addr = from, ![i].host_seen = now,
                               ![i].has_host = TRUE]
            ELSE [rooms EXCEPT ![i].client_addr = from, ![i].client_seen = now,
                               ![i].has_client = TRUE]
  IN  IF role # "H" /\ role # "C" THEN [rooms |-> rooms, sent |-> <<>>]
      ELSE IF r1[i].has_host /\ r1[i].has_client
      THEN [rooms |-> r1,
            sent |-> <<send_peer(r1[i].host_addr, r1[i].client_addr),
                       send_peer(r1[i].client_addr, r1[i].host_addr)>>]
      ELSE [rooms |-> r1, sent |-> <<send_wait(from, room_name)>>]

\* one turn of the loop of main for the datagram buf received from the
\* address from at time now: the rooms afterwards and the datagrams sent
Serve(rooms, now, buf, from) ==
  LET f == sscanf(buf)
  IN  IF Len(buf) <= 0 \/ f.n # 3 \/ f.magic # MAGIC
      THEN [rooms |-> rooms, sent |-> <<>>]
      ELSE LET r == find_or_create_room(prune_rooms(rooms, now), f.room_name)
           IN  IF r.room = 0 THEN [rooms |-> r.rooms, sent |-> <<>>]
               ELSE Register(r.rooms, r.room, f.role, f.room_name, from, now)

(***************************************************************************)
(* State.                                                                  *)
(*   eng     the Sync engine                                               *)
(*   gs      the bytes of the simulation state the callbacks save and load *)
(*   saved   per ring slot, the bytes the save callback produced when the  *)
(*           slot was last written (history, not read by the engine)       *)
(*   obs     what the last operation returned and which callbacks it made  *)
(*   loads   LoadFrame / AdjustSimulation calls so far                     *)
(*   inputs  AddLocalInput calls so far                                    *)
(*   changes frames at which the simulation state changed so far           *)
(*   cb_own  whether the save callback allocates its own buffer            *)
(*   ref     a second engine, with synchronous compression, that is driven *)
(*           with the same calls as eng, and what its last LoadFrame did   *)
(*   rw      the rewind arena, the call in progress and what the last call *)
(*           returned; pushed counts the snapshots pushed, run the pops    *)
(*           that succeeded since the last push, and empty tells whether   *)
(*           head == tail held with no valid thisblock before the last pop *)
(*   rv      the rendezvous server: its rooms and clock, the datagrams     *)
(*           sent in reply to the last one received, and the address that  *)
(*           each side of each room last sent a valid datagram from        *)
(*   reconciled  the frame of the last rollback that CheckSimulation       *)
(*           started (history, NullFrame before the first one)             *)
(***************************************************************************)
VARIABLES eng, gs, saved, obs, loads, inputs, changes, cb_own, ref, rw, rv,
          reconciled

vars == <<eng, gs, saved, obs, loads, inputs, changes, cb_own, ref, rw, rv, reconciled>>

\* the simulation states of the modelled game: equal sizes, one that the
\* codec shrinks and one that it does not
SimValues == {<<0, 0, 0>>, <<0, 0, 1>>}

\* the save callback of the application: it succeeds
Cb(data) == [data |-> data, own |-> cb_own, ok |-> TRUE]

NoObs ==
  [op |-> "none", arg |-> 0, ok |-> TRUE, called |-> FALSE, loaded |-> <<>>,
   pre_framecount |-> 0, advances |-> 0, in_rollback |-> TRUE,
   save_ok |-> TRUE, load_ok |-> TRUE,
   stop_jobs |-> 0, stop_results |-> 0, stop_busy |-> FALSE]

\* the history of a save into the slot at head
SavedAfter(e, data) ==
  IF e.head \in Slots THEN [saved EXCEPT ![e.head] = data] ELSE saved

\* the reference engine before its first call
\* no rewind arena
NoRewind ==
  [st |-> state_manager_new(0, 0, 0), pc |-> "idle", op |-> "none",
   ok |-> TRUE, out |-> <<>>, expected |-> <<>>, calls |-> 0,
   pushed |-> 0, run |-> 0, empty |-> TRUE]

NoRendezvous ==
  [rooms |-> <<>>, now |-> 0, op |-> "none", sent |-> <<>>, latest |-> <<>>,
   seen |-> <<>>, recvd |-> 0]

NoRef == [e |-> SyncNew(FALSE), ok |-> TRUE, called |-> FALSE, loaded |-> <<>>]

Idle == ~eng.ub /\ ~eng.adj.active

\* the simulation steps from gs to v
Step(v) ==
  /\ v # gs => changes < MaxChanges
  /\ gs' = v
  /\ changes' = IF v # gs THEN changes + 1 ELSE changes

Init ==
  /\ eng = SyncNew(FALSE)
  /\ gs \in SimValues
  /\ saved = [i \in Slots |-> <<>>]
  /\ obs = NoObs
  /\ loads = 0
  /\ inputs = 0
  /\ changes = 0
  /\ cb_own \in BOOLEAN
  /\ ref = NoRef
  /\ rw = NoRewind
  /\ rv = NoRendezvous
  /\ reconciled = NullFrame

\* the application hands a local input to Sync::AddLocalInput
AddLocalInputAct ==
  \E queue \in Players :
    /\ Idle
    /\ inputs < MaxLocalInputs
    /\ eng.input_queues[queue].last_user_added_frame = eng.framecount - 1
    /\ ~(eng.framecount = 0 /\ SaveCurrentFrameBlocks(eng))
    /\ LET r == AddLocalInput(eng, queue, Cb(gs))
       IN  /\ eng' = r.e
           /\ saved' = IF r.ok /\ eng.framecount = 0 THEN SavedAfter(eng, gs) ELSE saved
           /\ obs' = [NoObs EXCEPT !.op = "AddLocalInput", !.arg = r.stamped,
                                   !.ok = r.ok, !.pre_framecount = eng.framecount]
    /\ inputs' = inputs + 1
    /\ UNCHANGED <<gs, loads, changes, cb_own, ref, rw, rv, reconciled>>

\* the simulation steps to its next state and calls Sync::IncrementFrame
AdvanceFrameAct ==
  \E v \in SimValues :
    /\ Idle
    /\ eng.framecount < MaxFrame
    /\ ~SaveCurrentFrameBlocks(eng)
    /\ Step(v)
    /\ eng' = IncrementFrame(eng, Cb(v))
    /\ saved' = SavedAfter(eng, v)
    /\ obs' = [NoObs EXCEPT !.op = "IncrementFrame", !.pre_framecount = eng.framecount]
    /\ UNCHANGED <<loads, inputs, cb_own, ref, rw, rv, reconciled>>

\* Sync::LoadFrame called on its own (SyncTestBackend, PerfSync)
LoadFrameAct ==
  \E frame \in 0 .. MaxFrame :
    /\ Idle
    /\ loads < MaxLoads
    /\ LET r == LoadFrame(eng, frame)
       IN  /\ eng' = r.e
           /\ gs' = IF r.called THEN r.loaded ELSE gs
           /\ obs' = [NoObs EXCEPT !.op = "LoadFrame", !.arg = frame, !.ok = r.ok,
                                   !.called = r.called, !.loaded = r.loaded,
                                   !.pre_framecount = eng.framecount]
    /\ loads' = loads + 1
    /\ UNCHANGED <<saved, inputs, changes, cb_own, ref, rw, rv, reconciled>>

\* Sync::AdjustSimulation(seek_to) up to its first advance_frame callback
AdjustSimulationAct ==
  \E seek_to \in 0 .. MaxFrame :
    /\ Idle
    /\ loads < MaxLoads
    /\ seek_to <= eng.framecount
    /\ LET r == AdjustSimulationBegin(eng, seek_to)
       IN  /\ eng' = r.e
           /\ gs' = IF r.called THEN r.loaded ELSE gs
           /\ obs' = [NoObs EXCEPT !.op = "AdjustSimulation", !.arg = seek_to,
                                   !.ok = r.ok, !.called = r.called,
                                   !.loaded = r.loaded,
                                   !.pre_framecount = eng.framecount]
    /\ loads' = loads + 1
    /\ UNCHANGED <<saved, inputs, changes, cb_own, ref, rw, rv, reconciled>>

\* the advance_frame callback made by the replay loop of AdjustSimulation
AdjustAdvanceAct ==
  \E v \in SimValues :
    /\ ~eng.ub
    /\ eng.adj.active
    /\ ~SaveCurrentFrameBlocks(eng)
    /\ Step(v)
    /\ eng' = AdjustSimulationAdvance(eng, Cb(v))
    /\ saved' = SavedAfter(eng, v)
    /\ obs' = [obs EXCEPT !.advances = @ + 1,
                          !.in_rollback = @ /\ eng.rollingback]
    /\ UNCHANGED <<loads, inputs, cb_own, ref, rw, rv, reconciled>>

\* a simulation state of another size than those of SimValues
ResizedValues == {<<0, 0>>}

\* the simulation steps to a state of another size and calls
\* Sync::IncrementFrame
AdvanceResizedAct ==
  \E v \in ResizedValues :
    /\ Idle
    /\ eng.framecount < MaxFrame
    /\ ~SaveCurrentFrameBlocks(eng)
    /\ Step(v)
    /\ eng' = IncrementFrame(eng, Cb(v))
    /\ saved' = SavedAfter(eng, v)
    /\ obs' = [NoObs EXCEPT !.op = "IncrementFrame", !.pre_framecount = eng.framecount]
    /\ UNCHANGED <<loads, inputs, cb_own, ref, rw, rv, reconciled>>

\* the advance_frame callback of the replay loop steps the simulation to a
\* state of another size
AdjustAdvanceResizedAct ==
  \E v \in ResizedValues :
    /\ ~eng.ub
    /\ eng.adj.active
    /\ ~SaveCurrentFrameBlocks(eng)
    /\ Step(v)
    /\ eng' = AdjustSimulationAdvance(eng, Cb(v))
    /\ saved' = SavedAfter(eng, v)
    /\ obs' = [obs EXCEPT !.advances = @ + 1,
                          !.in_rollback = @ /\ eng.rollingback]
    /\ UNCHANGED <<loads, inputs, cb_own, ref, rw, rv, reconciled>>

Next ==
  \/ AddLocalInputAct
  \/ AdvanceFrameAct
  \/ AdvanceResizedAct
  \/ LoadFrameAct
  \/ AdjustSimulationAct
  \/ AdjustAdvanceAct
  \/ AdjustAdvanceResizedAct

Spec == Init /\ [][Next]_vars

(***************************************************************************)
(* The session as the game loop drives it: player 0 is local, player 1 is  *)
(* remote.  Each frame the loop adds the local input, synchronizes the     *)
(* inputs and advances; remote inputs and confirmations arrive in between, *)
(* and CheckSimulation rolls back to the first mispredicted frame.  The    *)
(* simulation state keeps one value.                                       *)
(***************************************************************************)
\* the session starts with the simulation state of the perf harness, whose
\* save callback allocates its own copy
InitInput ==
  /\ Init
  /\ gs = <<0, 0, 0>>
  /\ cb_own

\* the game hands the local input of the current frame to AddLocalInput
InputLocalAct ==
  /\ Idle
  /\ eng.input_queues[0].last_user_added_frame = eng.framecount - 1
  /\ LET r == AddLocalInput(eng, 0, Cb(gs))
     IN  /\ eng' = r.e
         /\ saved' = IF r.ok /\ eng.framecount = 0 THEN SavedAfter(eng, gs) ELSE saved
         /\ obs' = [NoObs EXCEPT !.op = "AddLocalInput", !.arg = r.stamped,
                                 !.ok = r.ok, !.pre_framecount = eng.framecount]
  /\ UNCHANGED <<gs, loads, inputs, changes, cb_own, ref, rw, rv, reconciled>>

\* the game asks for the inputs of the current frame (InputQueue::GetInput
\* must not be called while a prediction error is pending)
InputSyncAct ==
  /\ Idle
  /\ eng.input_queues[0].last_user_added_frame = eng.framecount
  /\ CheckSimulationConsistency(eng).ok
  /\ \E i \in Players : eng.input_queues[i].last_frame_requested # eng.framecount
  /\ eng' = SynchronizeInputs(eng)
  /\ obs' = NoObs
  /\ UNCHANGED <<gs, saved, loads, inputs, changes, cb_own, ref, rw, rv, reconciled>>

\* the game steps the simulation with the synchronized inputs and calls
\* IncrementFrame
InputAdvanceAct ==
  /\ Idle
  /\ eng.framecount < MaxFrame
  /\ \A i \in Players : eng.input_queues[i].last_frame_requested = eng.framecount
  /\ ~SaveCurrentFrameBlocks(eng)
  /\ eng' = IncrementFrame(eng, Cb(gs))
  /\ saved' = SavedAfter(eng, gs)
  /\ obs' = NoObs
  /\ UNCHANGED <<gs, loads, inputs, changes, cb_own, ref, rw, rv, reconciled>>

\* the next input of the remote player arrives; it either equals what was
\* predicted for its frame or differs (no misprediction once max rollbacks
\* have been started)
InputRemote(max) ==
  \E differs \in BOOLEAN :
    /\ Idle
    /\ eng.input_queues[1].last_user_added_frame < eng.framecount
    /\ differs => loads < max
    /\ eng' = AddRemoteInput(eng, 1, eng.input_queues[1].last_user_added_frame + 1,
                             differs)
    /\ obs' = NoObs
    /\ UNCHANGED <<gs, saved, loads, inputs, changes, cb_own, ref, rw, rv, reconciled>>

InputRemoteAct == InputRemote(MaxLoads)

\* the backend reports a later confirmed frame
InputConfirmAct ==
  \E frame \in 0 .. MaxFrame :
    /\ Idle
    /\ frame > eng.last_confirmed_frame
    /\ frame <= eng.framecount
    /\ eng' = SetLastConfirmedFrame(eng, frame)
    /\ obs' = NoObs
    /\ UNCHANGED <<gs, saved, loads, inputs, changes, cb_own, ref, rw, rv, reconciled>>

\* Sync::CheckSimulation, up to the first advance_frame callback of the
\* AdjustSimulation it starts; with no prediction error it does nothing
InputCheckAct ==
  /\ Idle
  /\ LET c == CheckSimulationConsistency(eng)
         r == AdjustSimulationBegin(eng, c.seek)
     IN  IF c.ok
         THEN /\ obs' = [NoObs EXCEPT !.op = "CheckSimulation"]
              /\ UNCHANGED <<eng, gs, loads, reconciled>>
         ELSE /\ reconciled' = c.seek
              /\ eng' = r.e
              /\ gs' = IF r.called THEN r.loaded ELSE gs
              /\ obs' = [NoObs EXCEPT !.op = "AdjustSimulation", !.arg = c.seek,
                                      !.ok = r.ok, !.called = r.called,
                                      !.loaded = r.loaded,
                                      !.pre_framecount = eng.framecount]
              /\ loads' = loads + 1
  /\ UNCHANGED <<saved, inputs, changes, cb_own, ref, rw, rv>>

\* the advance_frame callback made by the replay loop: the game
\* synchronizes the inputs, steps the simulation and calls IncrementFrame
InputReplayAct ==
  /\ ~eng.ub
  /\ eng.adj.active
  /\ ~SaveCurrentFrameBlocks(eng)
  /\ eng' = AdjustSimulationAdvance(SynchronizeInputs(eng), Cb(gs))
  /\ saved' = SavedAfter(eng, gs)
  /\ obs' = [obs EXCEPT !.advances = @ + 1,
                        !.in_rollback = @ /\ eng.rollingback]
  /\ UNCHANGED <<gs, loads, inputs, changes, cb_own, ref, rw, rv, reconciled>>

NextInput ==
  \/ InputLocalAct
  \/ InputSyncAct
  \/ InputAdvanceAct
  \/ InputRemoteAct
  \/ InputConfirmAct
  \/ InputCheckAct
  \/ InputReplayAct

SpecInput == InitInput /\ [][NextInput]_vars

(***************************************************************************)
(* The same session with a second misprediction, and with a backend that   *)
(* confirms the frames up to the last input of the remote player.          *)
(***************************************************************************)
\* number of rollbacks that CheckSimulation starts in one behaviour
MaxRollbacks == 2

RollbackRemoteAct == InputRemote(MaxRollbacks)

RollbackConfirmAct ==
  /\ InputConfirmAct
  /\ eng'.last_confirmed_frame = eng.input_queues[1].last_user_added_frame

NextRollback ==
  \/ InputLocalAct
  \/ InputSyncAct
  \/ InputAdvanceAct
  \/ RollbackRemoteAct
  \/ RollbackConfirmAct
  \/ InputCheckAct
  \/ InputReplayAct

SpecRollback == InitInput /\ [][NextRollback]_vars

(***************************************************************************)
(* The engine with the compression worker (async_compress on), driven with *)
(* the same calls as the reference engine ref.e, which compresses in       *)
(* place.  The calls of the simulation thread are atomic; the worker takes *)
(* a job in one step and publishes its result in another.  A call that     *)
(* would wait for the worker is taken once the worker has published.  The  *)
(* save callback allocates its own copy, as the one of the perf harness.   *)
(***************************************************************************)
InitAsync ==
  /\ eng = SyncNew(TRUE)
  /\ gs \in SimValues
  /\ saved = [i \in Slots |-> <<>>]
  /\ obs = NoObs
  /\ loads = 0
  /\ inputs = 0
  /\ changes = 0
  /\ cb_own = TRUE
  /\ ref = NoRef
  /\ rw = NoRewind
  /\ rv = NoRendezvous
  /\ reconciled = NullFrame

AsyncAddLocalInputAct ==
  \E queue \in Players :
    /\ Idle
    /\ inputs < MaxLocalInputs
    /\ eng.input_queues[queue].last_user_added_frame = eng.framecount - 1
    /\ ~(eng.framecount = 0 /\ SaveCurrentFrameBlocks(eng))
    /\ eng' = AddLocalInput(eng, queue, Cb(gs)).e
    /\ ref' = [NoRef EXCEPT !.e = AddLocalInput(ref.e, queue, Cb(gs)).e]
    /\ saved' = IF eng.framecount = 0 THEN SavedAfter(eng, gs) ELSE saved
    /\ obs' = [NoObs EXCEPT !.op = "AddLocalInput", !.pre_framecount = eng.framecount]
    /\ inputs' = inputs + 1
    /\ UNCHANGED <<gs, loads, changes, cb_own, rw, rv, reconciled>>

AsyncAdvanceFrameAct ==
  \E v \in SimValues :
    /\ Idle
    /\ eng.framecount < MaxAsyncFrame
    /\ ~SaveCurrentFrameBlocks(eng)
    /\ Step(v)
    /\ eng' = IncrementFrame(eng, Cb(v))
    /\ ref' = [NoRef EXCEPT !.e = IncrementFrame(ref.e, Cb(v))]
    /\ saved' = SavedAfter(eng, v)
    /\ obs' = [NoObs EXCEPT !.op = "IncrementFrame", !.pre_framecount = eng.framecount]
    /\ UNCHANGED <<loads, inputs, cb_own, rw, rv, reconciled>>

AsyncLoadFrameAct ==
  \E frame \in 0 .. MaxAsyncFrame :
    /\ Idle
    /\ loads < MaxLoads
    /\ LET r == LoadFrame(eng, frame)
           s == LoadFrame(ref.e, frame)
       IN  /\ eng' = r.e
           /\ ref' = [e |-> s.e, ok |-> s.ok, called |-> s.called, loaded |-> s.loaded]
           /\ gs' = IF r.called THEN r.loaded ELSE gs
           /\ obs' = [NoObs EXCEPT !.op = "LoadFrame", !.arg = frame, !.ok = r.ok,
                                   !.called = r.called, !.loaded = r.loaded,
                                   !.pre_framecount = eng.framecount]
    /\ loads' = loads + 1
    /\ UNCHANGED <<saved, inputs, changes, cb_own, rw, rv, reconciled>>

AsyncAdjustSimulationAct ==
  \E seek_to \in 0 .. MaxAsyncFrame :
    /\ Idle
    /\ loads < MaxLoads
    /\ seek_to <= eng.framecount
    /\ LET r == AdjustSimulationBegin(eng, seek_to)
           s == AdjustSimulationBegin(ref.e, seek_to)
       IN  /\ eng' = r.e
           /\ ref' = [e |-> s.e, ok |-> s.ok, called |-> s.called, loaded |-> s.loaded]
           /\ gs' = IF r.called THEN r.loaded ELSE gs
           /\ obs' = [NoObs EXCEPT !.op = "AdjustSimulation", !.arg = seek_to,
                                   !.ok = r.ok, !.called = r.called,
                                   !.loaded = r.loaded,
                                   !.pre_framecount = eng.framecount]
    /\ loads' = loads + 1
    /\ UNCHANGED <<saved, inputs, changes, cb_own, rw, rv, reconciled>>

AsyncAdjustAdvanceAct ==
  \E v \in SimValues :
    /\ ~eng.ub
    /\ eng.adj.active
    /\ ~SaveCurrentFrameBlocks(eng)
    /\ Step(v)
    /\ eng' = AdjustSimulationAdvance(eng, Cb(v))
    /\ ref' = [ref EXCEPT !.e = AdjustSimulationAdvance(ref.e, Cb(v))]
    /\ saved' = SavedAfter(eng, v)
    /\ obs' = [obs EXCEPT !.advances = @ + 1,
                          !.in_rollback = @ /\ eng.rollingback]
    /\ UNCHANGED <<loads, inputs, cb_own, rw, rv, reconciled>>

\* the worker wakes up and takes the oldest job
WorkerTakeAct ==
  /\ ~eng.ub
  /\ eng.thread
  /\ eng.wjob = NoJob
  /\ eng.jobs # <<>>
  /\ eng' = CompressionThreadTake(eng)
  /\ UNCHANGED <<gs, saved, obs, loads, inputs, changes, cb_own, ref, rw, rv, reconciled>>

\* the worker has compressed its job and queues the result
WorkerPublishAct ==
  /\ ~eng.ub
  /\ eng.wjob # NoJob
  /\ eng' = CompressionThreadPublish(eng)
  /\ UNCHANGED <<gs, saved, obs, loads, inputs, changes, cb_own, ref, rw, rv, reconciled>>

NextAsync ==
  \/ AsyncAddLocalInputAct
  \/ AsyncAdvanceFrameAct
  \/ AsyncLoadFrameAct
  \/ AsyncAdjustSimulationAct
  \/ AsyncAdjustAdvanceAct
  \/ WorkerTakeAct
  \/ WorkerPublishAct

SpecAsync == InitAsync /\ [][NextAsync]_vars

(***************************************************************************)
(* The life of an engine with async_compress on, up to its destruction.    *)
(* The destructor is called between two calls of the application.  Its     *)
(* StopCompressionThread blocks in join() while the worker finishes the    *)
(* job it holds and drains the queue; when the worker has returned, the    *)
(* rest of StopCompressionThread runs, and then the rest of the            *)
(* destructor.                                                             *)
(***************************************************************************)
LifeAddLocalInputAct == eng.pc = "run" /\ AsyncAddLocalInputAct

LifeAdvanceFrameAct == eng.pc = "run" /\ AsyncAdvanceFrameAct

LifeAdjustSimulationAct == eng.pc = "run" /\ AsyncAdjustSimulationAct

LifeAdjustAdvanceAct == eng.pc = "run" /\ AsyncAdjustAdvanceAct

LifeWorkerTakeAct == ~eng.wexit /\ WorkerTakeAct

LifeWorkerPublishAct == ~eng.wexit /\ WorkerPublishAct

\* the worker finds shutdown raised and no job left, and returns
WorkerExitAct ==
  /\ ~eng.ub
  /\ eng.thread
  /\ ~eng.wexit
  /\ eng.shutdown
  /\ eng.wjob = NoJob
  /\ eng.jobs = <<>>
  /\ eng' = CompressionThreadExit(eng)
  /\ UNCHANGED <<gs, saved, obs, loads, inputs, changes, cb_own, ref, rw, rv, reconciled>>

\* the destructor starts: StopCompressionThread up to its join
DeleteBeginAct ==
  /\ Idle
  /\ eng.pc = "run"
  /\ eng' = StopCompressionThreadBegin(eng)
  /\ obs' = [NoObs EXCEPT !.op = "StopCompressionThread",
                          !.stop_jobs = Len(eng.jobs),
                          !.stop_results = Len(eng.results),
                          !.stop_busy = (eng.wjob # NoJob)]
  /\ UNCHANGED <<gs, saved, loads, inputs, changes, cb_own, ref, rw, rv, reconciled>>

\* join() returns and StopCompressionThread runs to its end
StopReturnAct ==
  /\ ~eng.ub
  /\ eng.pc = "join"
  /\ eng.wexit
  /\ eng' = StopCompressionThreadEnd(eng)
  /\ UNCHANGED <<gs, saved, obs, loads, inputs, changes, cb_own, ref, rw, rv, reconciled>>

\* the rest of the destructor
DeleteEndAct ==
  /\ ~eng.ub
  /\ eng.pc = "stopped"
  /\ eng' = SyncDelete(eng)
  /\ obs' = [obs EXCEPT !.op = "~Sync"]
  /\ UNCHANGED <<gs, saved, loads, inputs, changes, cb_own, ref, rw, rv, reconciled>>

NextLife ==
  \/ LifeAddLocalInputAct
  \/ LifeAdvanceFrameAct
  \/ LifeAdjustSimulationAct
  \/ LifeAdjustAdvanceAct
  \/ LifeWorkerTakeAct
  \/ LifeWorkerPublishAct
  \/ WorkerExitAct
  \/ DeleteBeginAct
  \/ StopReturnAct
  \/ DeleteEndAct

SpecLife == InitAsync /\ [][NextLife]_vars

(***************************************************************************)
(* The destructor with a worker that is scheduled fairly: a worker that    *)
(* can take a job, finish one or return does so in the end, and a join     *)
(* whose thread has returned returns.                                      *)
(***************************************************************************)
NextStop ==
  \/ LifeAdvanceFrameAct
  \/ LifeAdjustSimulationAct
  \/ LifeAdjustAdvanceAct
  \/ LifeWorkerTakeAct
  \/ LifeWorkerPublishAct
  \/ WorkerExitAct
  \/ DeleteBeginAct
  \/ StopReturnAct
  \/ DeleteEndAct

SpecStop ==
  /\ InitAsync
  /\ [][NextStop]_vars
  /\ WF_vars(LifeWorkerTakeAct)
  /\ WF_vars(LifeWorkerPublishAct)
  /\ WF_vars(WorkerExitAct)
  /\ WF_vars(StopReturnAct)

(***************************************************************************)
(* The engine with the worker, with the wait of WaitForCompression made    *)
(* explicit.  A SaveCurrentFrame that finds the slot at head pending       *)
(* enters WaitForCompression: the simulation thread takes the mutex, sleeps *)
(* on _compress_done_cv unless a result is queued, and is woken by the     *)
(* notify_all of the worker.  Both threads are scheduled fairly: a thread  *)
(* that can take a step takes it in the end.                               *)
(***************************************************************************)
WaitAdvanceFrameAct == eng.wait \in {"none", "resume"} /\ AsyncAdvanceFrameAct

WaitAdjustSimulationAct == eng.wait = "none" /\ AsyncAdjustSimulationAct

WaitAdjustAdvanceAct == eng.wait \in {"none", "resume"} /\ AsyncAdjustAdvanceAct

\* IncrementFrame calls SaveCurrentFrame, which has to wait for the slot at
\* head
WaitEnterAct ==
  /\ ~eng.ub
  /\ eng.wait = "none"
  /\ eng.adj.active \/ eng.framecount < MaxAsyncFrame
  /\ SaveCurrentFrameBlocks(eng)
  /\ eng' = WaitForCompressionEnter(ProcessCompressionResults(eng), eng.head)
  /\ UNCHANGED <<gs, saved, obs, loads, inputs, changes, cb_own, ref, rw, rv, reconciled>>

\* the simulation thread has the mutex and reaches _compress_done_cv.wait
WaitLockedAct ==
  /\ eng.wait = "lock"
  /\ eng' = WaitForCompressionLocked(eng)
  /\ UNCHANGED <<gs, saved, obs, loads, inputs, changes, cb_own, ref, rw, rv, reconciled>>

\* the simulation thread, notified, wakes up with the mutex and looks at
\* the predicate of the wait
WaitWokenAct ==
  /\ eng.wait = "awake"
  /\ eng' = WaitForCompressionLocked(eng)
  /\ UNCHANGED <<gs, saved, obs, loads, inputs, changes, cb_own, ref, rw, rv, reconciled>>

NextWait ==
  \/ WaitAdvanceFrameAct
  \/ WaitAdjustSimulationAct
  \/ WaitAdjustAdvanceAct
  \/ WaitEnterAct
  \/ WaitLockedAct
  \/ WaitWokenAct
  \/ WorkerTakeAct
  \/ WorkerPublishAct

SpecWait ==
  /\ InitAsync
  /\ [][NextWait]_vars
  /\ WF_vars(WaitLockedAct)
  /\ WF_vars(WaitWokenAct)
  /\ WF_vars(WorkerTakeAct)
  /\ WF_vars(WorkerPublishAct)

(***************************************************************************)
(* The engine under an application whose save and load callbacks may       *)
(* fail.  A save callback that fails leaves the buffer and the length it   *)
(* was handed, as SaveGameState of the perf harness does; a load callback  *)
(* that fails leaves the simulation state alone, as LoadGameState does.    *)
(* obs.save_ok and obs.load_ok are the results the callbacks returned.     *)
(***************************************************************************)
\* the save callback with result ok
CbResult(data, ok) == [Cb(data) EXCEPT !.ok = ok]

CbAddLocalInputAct ==
  \E queue \in Players, save_ok \in BOOLEAN :
    /\ Idle
    /\ inputs < MaxLocalInputs
    /\ eng.input_queues[queue].last_user_added_frame = eng.framecount - 1
    /\ LET r == AddLocalInput(eng, queue, CbResult(gs, save_ok))
       IN  /\ eng' = r.e
           /\ saved' = IF r.ok /\ eng.framecount = 0
                       THEN SavedAfter(eng, IF save_ok THEN gs ELSE <<>>)
                       ELSE saved
           /\ obs' = [NoObs EXCEPT !.op = "AddLocalInput", !.arg = r.stamped,
                                   !.ok = r.ok, !.pre_framecount = eng.framecount,
                                   !.save_ok = save_ok \/ eng.framecount # 0]
    /\ inputs' = inputs + 1
    /\ UNCHANGED <<gs, loads, changes, cb_own, ref, rw, rv, reconciled>>

CbAdvanceFrameAct ==
  \E v \in SimValues, save_ok \in BOOLEAN :
    /\ Idle
    /\ eng.framecount < MaxCbFrame
    /\ Step(v)
    /\ eng' = IncrementFrame(eng, CbResult(v, save_ok))
    /\ saved' = SavedAfter(eng, IF save_ok THEN v ELSE <<>>)
    /\ obs' = [NoObs EXCEPT !.op = "IncrementFrame",
                            !.pre_framecount = eng.framecount,
                            !.save_ok = save_ok]
    /\ UNCHANGED <<loads, inputs, cb_own, ref, rw, rv, reconciled>>

CbLoadFrameAct ==
  \E frame \in 0 .. MaxCbFrame, load_ok \in BOOLEAN :
    /\ Idle
    /\ loads < MaxLoads
    /\ LET r == LoadFrame(eng, frame)
       IN  /\ eng' = r.e
           /\ gs' = IF r.called /\ load_ok THEN r.loaded ELSE gs
           /\ obs' = [NoObs EXCEPT !.op = "LoadFrame", !.arg = frame, !.ok = r.ok,
                                   !.called = r.called, !.loaded = r.loaded,
                                   !.pre_framecount = eng.framecount,
                                   !.load_ok = load_ok \/ ~r.called]
    /\ loads' = loads + 1
    /\ UNCHANGED <<saved, inputs, changes, cb_own, ref, rw, rv, reconciled>>

CbAdjustSimulationAct ==
  \E seek_to \in 0 .. MaxCbFrame, load_ok \in BOOLEAN :
    /\ Idle
    /\ loads < MaxLoads
    /\ seek_to <= eng.framecount
    /\ LET r == AdjustSimulationBegin(eng, seek_to)
       IN  /\ eng' = r.e
           /\ gs' = IF r.called /\ load_ok THEN r.loaded ELSE gs
           /\ obs' = [NoObs EXCEPT !.op = "AdjustSimulation", !.arg = seek_to,
                                   !.ok = r.ok, !.called = r.called,
                                   !.loaded = r.loaded,
                                   !.pre_framecount = eng.framecount,
                                   !.load_ok = load_ok \/ ~r.called]
    /\ loads' = loads + 1
    /\ UNCHANGED <<saved, inputs, changes, cb_own, ref, rw, rv, reconciled>>

CbAdjustAdvanceAct ==
  \E v \in SimValues, save_ok \in BOOLEAN :
    /\ ~eng.ub
    /\ eng.adj.active
    /\ Step(v)
    /\ eng' = AdjustSimulationAdvance(eng, CbResult(v, save_ok))
    /\ saved' = SavedAfter(eng, IF save_ok THEN v ELSE <<>>)
    /\ obs' = [obs EXCEPT !.advances = @ + 1,
                          !.in_rollback = @ /\ eng.rollingback,
                          !.save_ok = save_ok]
    /\ UNCHANGED <<loads, inputs, cb_own, ref, rw, rv, reconciled>>

NextCb ==
  \/ CbAddLocalInputAct
  \/ CbAdvanceFrameAct
  \/ CbLoadFrameAct
  \/ CbAdjustSimulationAct
  \/ CbAdjustAdvanceAct

SpecCb == Init /\ [][NextCb]_vars

(***************************************************************************)
(* The rewind arena under the frontend: each frame it either pushes the    *)
(* state of the core (push_where, serialize, push_do) or, while rewinding, *)
(* pops one.  The arena is created with any of the capacities below and    *)
(* any of the unknown words in its cells.                                  *)
(***************************************************************************)
\* calls of push and pop in one run
MaxRewindCalls == 8

\* the states that the core serializes
Snapshots ==
  {[i \in 1 .. RewindStateSize |-> 0],
   [i \in 1 .. RewindStateSize |-> 1],
   [i \in 1 .. RewindStateSize |-> IF i = RewindStateSize THEN 1 ELSE 0]}

\* the least capacity that push_do accepts
MinCapacity == SizeT + state_manager_new(RewindStateSize, 0, 0).maxcompsize

\* the least capacity with which the first record, whatever its patch, is
\* not followed by a wrap of head
RoomyCapacity ==
  LET st == state_manager_new(RewindStateSize, 0, 0)
  IN  SizeT + SizeT + STATE_DELTA_HEADER_SIZE + st.blocksize + st.maxcompsize

\* one capacity that push_do rejects, the least it accepts, the two around
\* RoomyCapacity and a larger one
Capacities ==
  {MinCapacity - 1, MinCapacity, RoomyCapacity - 1, RoomyCapacity,
   2 * MinCapacity}

\* the word in the cells that malloc returned
GarbageWords == {0, SizeT + 1}

InitRewind ==
  /\ eng = SyncNew(FALSE)
  /\ gs = <<>>
  /\ saved = [i \in Slots |-> <<>>]
  /\ obs = NoObs
  /\ loads = 0
  /\ inputs = 0
  /\ changes = 0
  /\ cb_own = FALSE
  /\ ref = NoRef
  /\ \E capacity \in Capacities, garbage \in GarbageWords :
       rw = [NoRewind EXCEPT
               !.st = state_manager_new(RewindStateSize, capacity, garbage)]
  /\ rv = NoRendezvous
  /\ reconciled = NullFrame

\* the frontend asks where to write the next state
PushWhereAct ==
  /\ rw.pc = "idle"
  /\ rw.st.fault = "none"
  /\ rw.calls < MaxRewindCalls
  /\ rw' = [rw EXCEPT !.st = state_manager_push_where(rw.st),
                      !.pc = "push", !.op = "push_where",
                      !.ok = TRUE, !.out = <<>>, !.expected = <<>>,
                      !.calls = @ + 1]
  /\ UNCHANGED <<eng, gs, saved, obs, loads, inputs, changes, cb_own, ref, rv, reconciled>>

\* the core serializes its state and the frontend pushes it
PushDoAct ==
  \E state \in Snapshots :
    /\ rw.pc = "push"
    /\ rw.st.fault = "none"
    /\ rw' = [rw EXCEPT !.st = state_manager_push_do(Serialize(rw.st, state)),
                        !.pc = "idle", !.op = "push_do",
                        !.pushed = @ + 1, !.run = 0]
    /\ UNCHANGED <<eng, gs, saved, obs, loads, inputs, changes, cb_own, ref, rv, reconciled>>

\* the frontend rewinds by one state
PopAct ==
  /\ rw.pc = "idle"
  /\ rw.st.fault = "none"
  /\ rw.calls < MaxRewindCalls
  /\ LET r == state_manager_pop(rw.st)
     IN  rw' = [rw EXCEPT
                  !.st = [r.st EXCEPT !.stack = IF r.ok /\ @ # <<>>
                                                THEN SubSeq(@, 1, Len(@) - 1)
                                                ELSE @],
                  !.op = "pop", !.ok = r.ok, !.out = r.data,
                  !.expected = IF rw.st.stack = <<>> THEN <<>>
                               ELSE rw.st.stack[Len(rw.st.stack)],
                  !.calls = @ + 1,
                  !.run = IF r.ok THEN @ + 1 ELSE @,
                  !.empty = (rw.st.head = rw.st.tail /\ ~rw.st.thisblock_valid)]
  /\ UNCHANGED <<eng, gs, saved, obs, loads, inputs, changes, cb_own, ref, rv, reconciled>>

NextRewind == PushWhereAct \/ PushDoAct \/ PopAct

SpecRewind == InitRewind /\ [][NextRewind]_vars

(***************************************************************************)
(* The rendezvous server: datagrams arrive from a few addresses and the    *)
(* clock advances in between.                                              *)
(***************************************************************************)
\* the clock stops at MaxTime
MaxTime == 2

\* number of datagrams received in one behaviour
MaxDatagrams == 3

\* the addresses that datagrams come from
Addrs == {[ip |-> 1, port |-> 1], [ip |-> 1, port |-> 2]}

\* a datagram made of three words
Packet(magic, role, room) == magic \o <<" ">> \o role \o <<" ">> \o room

\* the datagrams received: the host and the client of a room, the host of
\* a second room, the client of a third, the client of a room whose name
\* has ROOM_NAME_MAX
\* characters, another magic, another role, the magic and the role without
\* a space between them, two words only, and no data
Packets ==
  {Packet(MAGIC, <<"H">>, <<"a">>), Packet(MAGIC, <<"C">>, <<"a">>),
   Packet(MAGIC, <<"H">>, <<"c">>), Packet(MAGIC, <<"C">>, <<"b">>),
   Packet(MAGIC, <<"C">>, <<"a", "b", "c">>),
   Packet(<<"R", "N", "D", "V", "2">>, <<"H">>, <<"a">>),
   Packet(MAGIC, <<"X">>, <<"a">>),
   Packet(MAGIC \o <<"H">>, <<"C">>, <<"a">>),
   MAGIC \o <<" ", "H">>,
   <<>>}

InitRendezvous ==
  /\ eng = SyncNew(FALSE)
  /\ gs = <<>>
  /\ saved = [i \in Slots |-> <<>>]
  /\ obs = NoObs
  /\ loads = 0
  /\ inputs = 0
  /\ changes = 0
  /\ cb_own = FALSE
  /\ ref = NoRef
  /\ rw = NoRewind
  /\ rv = NoRendezvous
  /\ reconciled = NullFrame

\* the words of a datagram, as the protocol separates them
RECURSIVE Words(_)
Words(s) ==
  LET t == SkipSpace(s)
      w == TakeWord(t, Len(t))
  IN  IF t = <<>> THEN <<>>
      ELSE <<w>> \o Words(SubSeq(t, Len(w) + 1, Len(t)))

\* the datagram is "RNDV1 H <room>" or "RNDV1 C <room>", with a room name
\* that fits the name buffer
Valid(buf) ==
  /\ Len(Words(buf)) = 3
  /\ Words(buf)[1] = MAGIC
  /\ Words(buf)[2] \in {<<"H">>, <<"C">>}
  /\ Len(Words(buf)[3]) < ROOM_NAME_MAX

\* the first word of the datagram is not the magic, or its second word is
\* neither H nor C
WrongMagicOrRole(buf) ==
  \/ Len(Words(buf)) < 2
  \/ Words(buf)[1] # MAGIC
  \/ Words(buf)[2] \notin {<<"H">>, <<"C">>}

\* the server takes the datagram for the packet of the host or the client
\* of a room
Taken(buf) ==
  /\ Len(buf) > 0
  /\ sscanf(buf).n = 3
  /\ sscanf(buf).magic = MAGIC
  /\ sscanf(buf).role \in {"H", "C"}

\* the room and the role the server reads in the datagram
Side(buf) == <<sscanf(buf).room_name, sscanf(buf).role>>

\* recvfrom returns a datagram and the loop body of main handles it
RecvAct ==
  \E buf \in Packets, from \in Addrs :
    LET r == Serve(rv.rooms, rv.now, buf, from)
    IN  /\ rv.recvd < MaxDatagrams
        /\ rv' = [rv EXCEPT
                    !.rooms = r.rooms, !.sent = r.sent, !.op = "recv",
                    !.recvd = @ + 1,
                    !.latest = IF Valid(buf)
                               THEN [x \in DOMAIN @ \cup {<<Words(buf)[3], Words(buf)[2]>>} |->
                                       IF x = <<Words(buf)[3], Words(buf)[2]>>
                                       THEN from ELSE @[x]]
                               ELSE @,
                    !.seen = IF Taken(buf)
                             THEN [x \in DOMAIN @ \cup {Side(buf)} |->
                                     IF x = Side(buf)
                                     THEN [time |-> rv.now, addr |-> from]
                                     ELSE @[x]]
                             ELSE @]
        /\ UNCHANGED <<eng, gs, saved, obs, loads, inputs, changes, cb_own, ref, rw, reconciled>>

\* a second passes
TickAct ==
  /\ rv.now < MaxTime
  /\ rv' = [rv EXCEPT !.now = @ + 1, !.op = "tick", !.sent = <<>>]
  /\ UNCHANGED <<eng, gs, saved, obs, loads, inputs, changes, cb_own, ref, rw, reconciled>>

NextRendezvous ==
  \/ RecvAct
  \/ TickAct

SpecRendezvous == InitRendezvous /\ [][NextRendezvous]_vars

(***************************************************************************)
(* Properties.                                                             *)
(***************************************************************************)
Frames == 0 .. MaxFrame

\* the ring holds a snapshot of frame F: the frame is found and its slot has
\* a buffer
Retained(e, F) ==
  /\ FindSavedFrameIndex(e, F) >= 0
  /\ e.frames[FindSavedFrameIndex(e, F)].buf.id # 0

\* C1: for every frame F the ring holds a snapshot of, other than the
\* current frame, LoadFrame(F) returns true, hands the load callback the
\* bytes that were saved for F and sets the current frame to F.
C1_LoadRetainedFrame ==
  Idle =>
    \A F \in Frames :
      (Retained(eng, F) /\ F # eng.framecount) =>
        LET r == LoadFrame(eng, F)
        IN  /\ r.ok
            /\ r.called
            /\ r.loaded = saved[FindSavedFrameIndex(eng, F)]
            /\ r.e.framecount = F

\* a frame has been saved since construction
SomeFrameSaved == \E i \in Slots : saved[i] # <<>>

\* the slots that hold a snapshot
Filled(e) == {i \in Slots : e.frames[i].buf.id # 0}

\* C2: whenever reconstructing or decoding a retained frame F succeeds, by
\* ReconstructFrameInternal or by the decode of LoadFrame, the bytes are
\* exactly those the save callback produced for F.
C2_RoundTrip ==
  Idle =>
    \A F \in Frames :
      Retained(eng, F) =>
        LET i == FindSavedFrameIndex(eng, F)
            r == ReconstructFrameInternal(eng, F)
            l == LoadFrame(eng, F)
        IN  /\ r.ok => r.data = saved[i]
            /\ (l.ok /\ l.called) => l.loaded = saved[i]

\* C3: every slot stored as a delta at frame F has its reconstruction base
\* in the ring: a non-delta snapshot at some frame F' < F and a delta
\* snapshot for every frame F'+1 .. F-1.
C3_DeltaBaseInRing ==
  ~eng.ub =>
    \A i \in Filled(eng) :
      eng.frames[i].delta =>
        \E j \in Filled(eng) :
          /\ ~eng.frames[j].delta
          /\ eng.frames[j].frame < eng.frames[i].frame
          /\ \A G \in (eng.frames[j].frame + 1) .. (eng.frames[i].frame - 1) :
               \E k \in Filled(eng) :
                 eng.frames[k].frame = G /\ eng.frames[k].delta

\* C4: no two slots of the ring carry the same frame number, except the
\* empty-slot value -1, in every state from construction onward.
C4_FrameNumbersDistinct ==
  \A i, j \in Slots :
    (i # j /\ eng.frames[i].frame = eng.frames[j].frame) =>
      eng.frames[i].frame = -1

\* C5: the head index of the ring is within [0, N) after every operation,
\* a failed LoadFrame included.
C5_HeadInRing == eng.head \in Slots

\* C6: once a frame has been saved, after every completed operation the
\* slot just before head holds the current frame.
C6_HeadIsWriteCursor ==
  (Idle /\ SomeFrameSaved) =>
    eng.frames[(eng.head - 1) % RingSize].frame = eng.framecount

\* every input queue is as ResetPrediction leaves it when no error at an
\* earlier frame is pending
PredictionsReset(e) ==
  \A i \in Players :
    /\ e.input_queues[i].prediction_frame = NullFrame
    /\ e.input_queues[i].first_incorrect_frame = NullFrame
    /\ e.input_queues[i].last_frame_requested = NullFrame

\* C7: when LoadFrame(seek) succeeds, AdjustSimulation(seek) resets the
\* predictions at seek, makes exactly target - seek advance callbacks, where
\* target is the current frame at entry, and returns with the current frame
\* at target and InRollback() false; InRollback() is true during each
\* advance callback.
C7_AdjustSimulationReplays ==
  /\ eng.adj.active => eng.rollingback
  /\ (obs.op = "AdjustSimulation" /\ obs.ok) =>
       /\ obs.in_rollback
       /\ eng.framecount = obs.arg + obs.advances
       /\ obs.advances = 0 => PredictionsReset(eng)
       /\ eng.adj.active => obs.advances < obs.pre_framecount - obs.arg
       /\ ~eng.adj.active =>
            /\ obs.advances = obs.pre_framecount - obs.arg
            /\ eng.framecount = obs.pre_framecount
            /\ ~eng.rollingback

\* a rollback from frame 10 to frame 5 has replayed its five frames
C7_Witness ==
  /\ obs.op = "AdjustSimulation"
  /\ obs.ok
  /\ ~eng.adj.active
  /\ obs.arg = 5
  /\ obs.pre_framecount = 10
  /\ obs.advances = 5

\* C8: when LoadFrame(seek) fails, AdjustSimulation(seek) makes no advance
\* and no load callback, applies ResetPrediction(seek) to every input queue,
\* leaves the current frame at its value from before the call and returns
\* with InRollback() false.
C8_AdjustSimulationDegrades ==
  (obs.op = "AdjustSimulation" /\ ~obs.ok) =>
    /\ ~obs.called
    /\ obs.advances = 0
    /\ ~eng.adj.active
    /\ PredictionsReset(eng)
    /\ eng.framecount = obs.pre_framecount
    /\ ~eng.rollingback

\* a rollback to a frame whose delta base has left the ring has failed
C8_Witness ==
  /\ obs.op = "AdjustSimulation"
  /\ ~obs.ok
  /\ obs.arg = 3
  /\ obs.pre_framecount = 10
  /\ FindSavedFrameIndex(eng, 3) >= 0

\* C9: AddLocalInput is refused exactly when the current frame is at least
\* max_prediction_frames and at least max_prediction_frames ahead of the
\* last confirmed frame; a refused call saves no frame, does not stamp the
\* input and adds nothing to the queue; with 8 prediction frames and no
\* confirmation the call is accepted at frames 0..7 and refused at frame 8,
\* and accepted at frame 8 once frame 1 is confirmed.
C9_PredictionBarrier ==
  /\ [](obs.op = "AddLocalInput" =>
         /\ obs.ok <=>
              ~(/\ obs.pre_framecount >= eng.max_prediction_frames
                /\ obs.pre_framecount - eng.last_confirmed_frame
                     >= eng.max_prediction_frames)
         /\ ~obs.ok => obs.arg = NullFrame
         /\ obs.ok => obs.arg = obs.pre_framecount
         /\ eng.last_confirmed_frame = -1 => (obs.ok <=> obs.pre_framecount <= 7)
         /\ (eng.last_confirmed_frame = 1 /\ obs.pre_framecount = 8) => obs.ok)
  /\ [][(obs'.op = "AddLocalInput" /\ ~obs'.ok) =>
          (eng' = eng /\ saved' = saved)]_vars

\* the call at frame 8 has been refused with nothing confirmed
C9_Witness ==
  /\ obs.op = "AddLocalInput"
  /\ ~obs.ok
  /\ obs.pre_framecount = 8
  /\ eng.last_confirmed_frame = -1

\* C10: driven with the same saves, loads and rollbacks, and whatever the
\* worker has and has not done yet, the engine with async_compress on and
\* the one with it off have the same current frame, gave the same result
\* and the same bytes to the load callback in their last call, and would do
\* so for a LoadFrame of any frame.
C10_AsyncEquivalent ==
  /\ eng.framecount = ref.e.framecount
  /\ eng.ub = ref.e.ub
  /\ obs.ok = ref.ok
  /\ obs.called = ref.called
  /\ obs.loaded = ref.loaded
  /\ Idle =>
       \A F \in Frames :
         LET a == LoadFrame(eng, F)
             s == LoadFrame(ref.e, F)
         IN  /\ a.ok = s.ok
             /\ a.called = s.called
             /\ a.loaded = s.loaded
             /\ a.e.framecount = s.e.framecount

\* a frame whose compression is still with the worker has been loaded, while
\* the reference engine loaded it from its compressed form
C10_Witness ==
  /\ obs.op = "LoadFrame"
  /\ obs.ok
  /\ obs.called
  /\ \E i \in Slots :
       /\ eng.frames[i].frame = obs.arg
       /\ eng.frames[i].compress_pending
       /\ ~eng.frames[i].compressed
       /\ ref.e.frames[i].frame = obs.arg
       /\ ref.e.frames[i].compressed

\* C11: when the load callback returns false during LoadFrame(F), LoadFrame
\* returns false, the current frame is not set to F and AdjustSimulation
\* replays nothing on top of the rejected state.
C11_LoadCallbackFailureSurfaced ==
  (obs.op \in {"LoadFrame", "AdjustSimulation"} /\ obs.called /\ ~obs.load_ok) =>
    /\ ~obs.ok
    /\ obs.advances = 0
    /\ ~eng.adj.active
    /\ eng.framecount = obs.pre_framecount

\* C12: when the save callback returns false, SaveCurrentFrame records no
\* snapshot for the current frame in the slot at head, produces no delta
\* and no compressed form from it and does not update last_state from it.
C12_SaveCallbackFailureAborts ==
  [][(/\ obs'.op \in {"AddLocalInput", "IncrementFrame"}
      /\ ~obs'.save_ok
      /\ eng.head \in Slots)
       => LET old == eng.frames[eng.head]
              new == eng'.frames[eng.head]
          IN  /\ new.frame = eng'.framecount => new = old
              /\ (new.delta \/ new.compressed) => new = old
              /\ eng'.last_state = eng.last_state]_vars

\* the step is a SaveCurrentFrame into the slot at head
SaveStep ==
  /\ ~eng.ub
  /\ eng.head \in Slots
  /\ eng'.head = (eng.head + 1) % RingSize
  /\ saved'[eng.head] # <<>>
  /\ \/ obs'.op = "IncrementFrame"
     \/ obs'.op = "AddLocalInput" /\ obs'.ok /\ obs'.pre_framecount = 0
     \/ obs'.op = "AdjustSimulation" /\ obs'.advances = obs.advances + 1

\* C13: SaveCurrentFrame stores frame F as a delta exactly when last_state
\* is valid, has the size of the new snapshot and is of frame F - 1, and
\* F % 4 # 0; so every retained frame with F % 4 = 0 is non-delta, and when
\* frames 0..7 are saved one after the other with one state size, frames 0
\* and 4 are non-delta and frames 1-3 and 5-7 are delta.
C13_DeltaEligibility ==
  /\ [][SaveStep =>
          LET new == eng'.frames[eng.head]
          IN  new.delta <=>
                /\ eng.last_state.valid
                /\ eng.last_state.size = new.uncompressed_size
                /\ eng.last_state.frame = new.frame - 1
                /\ new.frame % GGPO_STATE_KEYFRAME_INTERVAL # 0]_vars
  /\ [](\A i \in Filled(eng) :
          eng.frames[i].frame % GGPO_STATE_KEYFRAME_INTERVAL = 0
            => ~eng.frames[i].delta)
  /\ []((/\ loads = 0
         /\ inputs = 1
         /\ eng.framecount = 7
         /\ \A i \in 0 .. 7 : Len(saved[i]) = Len(saved[0]))
          => \A i \in 0 .. 7 :
               /\ eng.frames[i].frame = i
               /\ eng.frames[i].delta <=> (i \notin {0, 4}))

\* frames 0..7 have been saved one after the other with one state size
C13_Witness ==
  /\ loads = 0
  /\ inputs = 1
  /\ eng.framecount = 7
  /\ \A i \in 0 .. 7 : Len(saved[i]) = Len(saved[0])
  /\ eng.frames[7].delta

\* the number of XOR deltas that ReconstructFrameInternal applies on top of
\* the non-delta base of frame
DeltasApplied(e, frame) ==
  IF e.frames[FindSavedFrameIndex(e, frame)].delta
  THEN frame - FindBaseFrame(e, frame)
  ELSE 0

\* C14: every successful reconstruction of a frame applies at most
\* GGPO_STATE_KEYFRAME_INTERVAL - 1 XOR deltas on top of its non-delta base.
C14_KeyframeBound ==
  ~eng.ub =>
    \A F \in Frames :
      ReconstructFrameInternal(eng, F).ok =>
        DeltasApplied(eng, F) <= GGPO_STATE_KEYFRAME_INTERVAL - 1

\* after a rollback and a change of the state size, a frame is
\* reconstructed from its base and three deltas
C14_Witness ==
  /\ ~eng.ub
  /\ loads = 1
  /\ \E i, j \in Slots : saved[i] # <<>> /\ saved[j] # <<>> /\ Len(saved[i]) # Len(saved[j])
  /\ \E F \in Frames :
       /\ ReconstructFrameInternal(eng, F).ok
       /\ DeltasApplied(eng, F) = GGPO_STATE_KEYFRAME_INTERVAL - 1

\* the sizes of the slots of e agree with their compressed flags
SlotSizes(e) ==
  \A i \in Slots :
    e.frames[i].buf.id # 0 =>
      /\ e.frames[i].cbuf <= e.frames[i].uncompressed_size
      /\ e.frames[i].compressed => e.frames[i].cbuf < e.frames[i].uncompressed_size

\* LZ4 returned a size that is no gain on slot_size bytes
NoGain(compressed_size, slot_size) ==
  compressed_size <= 0 \/ compressed_size >= slot_size

\* CompressSync leaves a slot alone when LZ4 gains nothing on its bytes
CompressSyncKeeps(e) ==
  \A i \in Slots :
    LET state == e.frames[i]
    IN  (/\ state.buf.id # 0
         /\ ~state.compressed
         /\ NoGain(Len(LZ4_compress_fast(FastMemcpy(state.buf.data, state.cbuf))),
                   state.cbuf))
          => CompressSync(e, i, state.buf, state.cbuf).frames[i] = state

\* ApplyCompressionResult leaves the buffer of a slot alone when the
\* result is no smaller than the slot
ApplyCompressionResultKeeps(e) ==
  \A k \in 1 .. Len(e.results) :
    LET result == e.results[k]
        state == e.frames[result.state]
        after == ApplyCompressionResult(e, result).frames[result.state]
    IN  NoGain(result.compressed_size, state.uncompressed_size)
          => /\ after.buf = state.buf
             /\ after.cbuf = state.cbuf
             /\ after.compressed = state.compressed

\* C15: in every slot cbuf <= uncompressed_size, and a slot is compressed
\* only if cbuf < uncompressed_size; when LZ4 returns a size <= 0 or a size
\* >= uncompressed_size the slot keeps its uncompressed buffer.  This holds
\* for CompressSync and for ApplyCompressionResult.
C15_CompressedOnlyIfSmaller ==
  ~eng.ub =>
    /\ SlotSizes(eng)
    /\ SlotSizes(ref.e)
    /\ CompressSyncKeeps(ref.e)
    /\ ApplyCompressionResultKeeps(eng)

\* the worker has published a result that is no gain for its slot, a slot
\* of the engine is compressed, and the synchronous engine holds a slot
\* that CompressSync left uncompressed
C15_Witness ==
  /\ ~eng.ub
  /\ \E k \in 1 .. Len(eng.results) :
       /\ eng.results[k].compressed_size >= eng.frames[eng.results[k].state].uncompressed_size
       /\ eng.frames[eng.results[k].state].buf.id = eng.results[k].input
  /\ \E i \in Slots : eng.frames[i].compressed
  /\ \E i \in Slots :
       /\ ref.e.frames[i].buf.id # 0
       /\ ~ref.e.frames[i].compressed
       /\ ref.e.frames[i].cbuf > 0

\* the slot of result holds the input of result: the same buffer, the same
\* frame, not compressed yet
HoldsInput(e, result) ==
  LET state == e.frames[result.state]
  IN  /\ state.frame = result.frame
      /\ state.buf.id = result.input
      /\ ~state.compressed

\* ApplyCompressionResult of a result on e: when it installs the payload
\* the slot held the input and decodes to the same bytes as before, and
\* when the slot does not hold the input any more the payload is freed and
\* the buffer, the sizes and the flags of the slot stay as they are
ResultApplied(e, result) ==
  LET state == e.frames[result.state]
      e1 == ApplyCompressionResult(e, result)
      after == e1.frames[result.state]
  IN  /\ after.buf.id = result.compressed_buf.id =>
           /\ HoldsInput(e, result)
           /\ after.compressed
           /\ DecodeSavedFrameInternal(after) = DecodeSavedFrameInternal(state)
      /\ ~HoldsInput(e, result) =>
           /\ result.compressed_buf.id \notin e1.mallocs
           /\ e1.heap_fault = "none"
           /\ after = [state EXCEPT !.compress_pending = FALSE]

\* the results that a worker could hand over for slot i after the slot has
\* moved on: another frame, another buffer, or compressed in the meantime
LateResults(e, i) ==
  LET state == e.frames[i]
      data == LZ4_compress_fast(<<0, 0, 0>>)
      all == { [state |-> i, input |-> input, input_size |-> 3, frame |-> frame,
                compressed_buf |-> [id |-> Malloc(e, {}), data |-> data],
                compressed_size |-> Len(data)] :
                 input \in {state.buf.id, Malloc(e, {})},
                 frame \in {state.frame, state.frame - 1} }
  IN  {result \in all : ~HoldsInput(e, result)}

\* C18: a compression result is installed only if its slot still holds the
\* input it was computed from (same buffer, same frame, not compressed
\* yet); whatever the worker and the simulation did in the meantime, an
\* installed payload decodes to what the slot held just before; a stale
\* result is freed without a change to the slot's buffer, size or flags.
C18_ResultMatchesSlot ==
  ~eng.ub =>
    /\ \A k \in 1 .. Len(eng.results) :
         ResultApplied([eng EXCEPT !.results = <<>>], eng.results[k])
    /\ \A i \in Slots :
         eng.frames[i].buf.id # 0 =>
           \A result \in LateResults(eng, i) :
             ResultApplied(HeapMalloc(eng, result.compressed_buf.id), result)

\* after a rollback, a published result is about to be installed in a slot
\* that still holds its input, and installing it compresses the slot
C18_Witness ==
  /\ ~eng.ub
  /\ loads = 1
  /\ eng.results # <<>>
  /\ HoldsInput(eng, Head(eng.results))
  /\ ApplyCompressionResult(eng, Head(eng.results)).frames[Head(eng.results).state].compressed

\* addresses of the buffers in the pool of e
PoolIds(e) == {e.pool[k].id : k \in 1 .. Len(e.pool)}

\* addresses of the inputs of the jobs of e, queued or with the worker
JobInputs(e) ==
  {e.jobs[k].input : k \in 1 .. Len(e.jobs)}
    \cup (IF e.wjob = NoJob THEN {} ELSE {e.wjob.input})

\* who owns the buffers of e: the buffer of a compressed or delta slot came
\* from malloc and that of any other slot from the save callback or the
\* pool, no free() or free callback met a buffer of the other kind, and a
\* pooled buffer is neither in a slot nor the input of a job
Ownership(e) ==
  /\ \A i \in Slots :
       LET state == e.frames[i]
       IN  state.buf.id # 0 =>
             /\ state.buf.id \in e.mallocs <=> (state.compressed \/ state.delta)
             /\ state.buf.id \in e.cbufs <=> ~(state.compressed \/ state.delta)
  /\ e.heap_fault = "none"
  /\ PoolIds(e) \subseteq e.cbufs
  /\ PoolIds(e) \cap ({e.frames[i].buf.id : i \in Slots} \cup JobInputs(e)) = {}
  /\ \A j, k \in 1 .. Len(e.pool) : e.pool[j].id = e.pool[k].id => j = k

\* C19: the buffer of a slot was allocated by the engine exactly when the
\* slot is compressed or delta, and comes from the save callback or the
\* pool otherwise; free() is called on engine buffers only and the free
\* callback and the pool get callback buffers only; no buffer is in the
\* pool while a ring slot or a queued or in-flight job refers to it.
C19_BufferOwnership ==
  ~eng.ub => Ownership(eng) /\ Ownership(ref.e)

\* the pool holds a buffer, the worker is on a job, and the ring holds a
\* callback buffer, a delta and a compressed payload
C19_Witness ==
  /\ ~eng.ub
  /\ eng.pool # <<>>
  /\ eng.wjob # NoJob
  /\ \E i \in Slots : eng.frames[i].buf.id \in eng.cbufs
  /\ \E i \in Slots : eng.frames[i].delta
  /\ \E i \in Slots : eng.frames[i].compressed

\* addresses of the buffers held by the ring slots of e
SlotIds(e) == {e.frames[i].buf.id : i \in Slots} \ {0}

\* C16: when StopCompressionThread returns, whatever jobs were queued, in
\* flight or finished but not applied when it was called, the worker has
\* exited, both queues are empty, every compressed buffer that the worker
\* produced and that was not installed in a slot has been freed, no slot is
\* compress_pending, and _compress_shutdown is false again.
C16_StopLeavesNothingBehind ==
  (~eng.ub /\ eng.pc = "stopped") =>
    /\ eng.wexit
    /\ eng.wjob = NoJob
    /\ eng.jobs = <<>>
    /\ eng.results = <<>>
    /\ eng.mallocs \subseteq SlotIds(eng)
    /\ eng.heap_fault = "none"
    /\ \A i \in Slots : ~eng.frames[i].compress_pending
    /\ ~eng.shutdown

\* StopCompressionThread has returned from a call made with a job queued,
\* one with the worker and a result not yet applied
C16_Witness ==
  /\ ~eng.ub
  /\ eng.pc = "stopped"
  /\ obs.op = "StopCompressionThread"
  /\ obs.stop_jobs > 0
  /\ obs.stop_busy
  /\ obs.stop_results > 0

\* C17: destroying the engine at any point between two calls releases every
\* outstanding buffer exactly once: callback buffers through the free
\* callback, engine buffers through free(), none left and none released
\* twice, and the worker has been joined.
C17_DeleteReleasesEverything ==
  (~eng.ub /\ eng.pc = "destroyed") =>
    /\ eng.mallocs = {}
    /\ eng.cbufs = {}
    /\ eng.heap_fault = "none"
    /\ eng.wexit
    /\ ~eng.thread
    /\ eng.pool = <<>>
    /\ SlotIds(eng) = {}

\* the engine has been destroyed right after saves were queued: two jobs
\* were waiting and one was with the worker when the destructor was called
C17_Witness ==
  /\ ~eng.ub
  /\ eng.pc = "destroyed"
  /\ obs.op = "~Sync"
  /\ obs.stop_jobs >= 2
  /\ obs.stop_busy

\* C20: on an arena whose capacity passed the capacity check of push_do,
\* whatever the pushes and pops before, a pop that succeeds returns byte
\* for byte the most recently pushed snapshot that was neither popped nor
\* evicted, so that a run of pops returns the retained snapshots in reverse
\* order of their pushes; and the baseline that a push after pops goes on
\* from, the snapshot that the pop of push_where produced, is the most
\* recent snapshot still retained.
C20_RewindLifo ==
  rw.st.capacity >= SizeT + rw.st.maxcompsize =>
    /\ (rw.op = "pop" /\ rw.ok) =>
         /\ rw.expected # <<>>
         /\ rw.out = rw.expected
    /\ (rw.pc = "push" /\ rw.st.thisblock_valid) =>
         /\ rw.st.stack # <<>>
         /\ rw.st.thisblock = rw.st.stack[Len(rw.st.stack)]

\* C21: whatever the pushes and pops, every cell that push_do writes
\* (forward pointer, header, payload, back pointer) lies inside the arena,
\* no record reaches over the end of the arena, and a record that is
\* written never overlaps a record still retained between tail and head.
C21_ArenaConservation ==
  /\ rw.st.fault # "write past the arena"
  /\ \A k \in 1 .. Len(rw.st.records) :
       rw.st.records[k] \subseteq 0 .. rw.st.capacity - 1
  /\ ~rw.st.clobbered

\* C22: a pop fails exactly when no snapshot remains (head = tail and this
\* block not valid); for every capacity that push_do accepts, a run of
\* consecutive pops succeeds at most as many times as snapshots were pushed,
\* and a failed pop leaves the arena empty so that pops keep failing until
\* the next push.
C22_RewindExhaustion ==
  /\ rw.op = "pop" => (rw.ok <=> ~rw.empty)
  /\ rw.st.capacity >= SizeT + rw.st.maxcompsize => rw.run <= rw.pushed
  /\ (rw.op = "pop" /\ ~rw.ok) =>
       /\ rw.st.head = rw.st.tail
       /\ ~rw.st.thisblock_valid

\* the engine with the given first incorrect frames in its input queues
WithIncorrect(e, frames) ==
  [e EXCEPT !.input_queues =
     [i \in Players |-> [e.input_queues[i] EXCEPT !.first_incorrect_frame = frames[i]]]]

\* the frames that the input queues of e report as first incorrect
Reported(e) ==
  {e.input_queues[i].first_incorrect_frame : i \in Players} \ {NullFrame}

\* what CheckSimulationConsistency has to answer for the engine e
Consistent(e) ==
  LET c == CheckSimulationConsistency(e)
  IN  /\ c.ok <=> Reported(e) = {}
      /\ c.ok => c.seek = NullFrame
      /\ ~c.ok => /\ c.seek \in Reported(e)
                  /\ \A f \in Reported(e) : c.seek <= f

\* C23: CheckSimulationConsistency returns true and leaves the seek frame
\* untouched when no input queue reports a first incorrect frame; otherwise
\* it returns false with the least frame reported as seek frame, whichever
\* queues report; and CheckSimulation starts AdjustSimulation, with that
\* frame, exactly when some queue reports one.
C23_CheckSimulation ==
  /\ [](\A frames \in [Players -> {NullFrame} \cup (0 .. MaxFrame)] :
          Consistent(WithIncorrect(eng, frames)))
  /\ [][/\ (obs'.op = "CheckSimulation") =>
             (Reported(eng) = {} /\ eng' = eng /\ loads' = loads)
        /\ (loads' = loads + 1) =>
             (/\ Reported(eng) # {}
              /\ obs'.op = "AdjustSimulation"
              /\ obs'.arg = Min(Reported(eng))
              /\ \A f \in Reported(eng) : obs'.arg <= f)]_vars

\* CheckSimulation has started a rollback to the frame that the remote
\* queue reported
C23_Witness ==
  /\ obs.op = "AdjustSimulation"
  /\ obs.advances = 0
  /\ loads = 1
  /\ obs.arg = 2
  /\ obs.pre_framecount = 4

\* the engine e with jobs added to its deque until n jobs and results are
\* in flight
FilledTo(e, n) ==
  LET more == n - (Len(e.jobs) + Len(e.results))
  IN  IF more <= 0 THEN e
      ELSE [e EXCEPT !.jobs = @ \o [k \in 1 .. more |-> NoJob]]

\* the engine e as QueueCompression may find it when SaveCurrentFrame has
\* stored a buffer in slot i: as it is, with async_compress off, without
\* the worker thread, shutting down, with the slot still pending, with the
\* deques full and with the deques one short of full
QueueStates(e, i) ==
  {e,
   [e EXCEPT !.async_compress = FALSE],
   [e EXCEPT !.thread = FALSE],
   [e EXCEPT !.shutdown = TRUE],
   [e EXCEPT !.frames[i].compress_pending = TRUE],
   FilledTo(e, RingSize),
   FilledTo(e, RingSize - 1)}

\* the conditions under which QueueCompression has to reject slot i
MustReject(e, i) ==
  \/ ~e.async_compress
  \/ ~e.thread
  \/ e.shutdown
  \/ e.frames[i].compress_pending
  \/ Len(e.jobs) + Len(e.results) >= RingSize

\* QueueCompression of the buffer of slot i answers as it has to
QueueAnswer(e, i) ==
  LET state == e.frames[i]
      q == QueueCompression(e, i, state.buf, state.uncompressed_size)
  IN  IF MustReject(e, i)
      THEN /\ ~q.ok
           /\ q.e.jobs = e.jobs
           /\ q.e.results = e.results
           /\ q.e.frames[i].compress_pending = state.compress_pending
      ELSE /\ q.ok
           /\ Len(q.e.jobs) = Len(e.jobs) + 1
           /\ SubSeq(q.e.jobs, 1, Len(e.jobs)) = e.jobs
           /\ q.e.jobs[Len(q.e.jobs)].state = i
           /\ q.e.jobs[Len(q.e.jobs)].input = state.buf.id
           /\ q.e.jobs[Len(q.e.jobs)].frame = state.frame
           /\ q.e.results = e.results
           /\ q.e.frames[i].compress_pending

\* SaveCurrentFrame with slot i at head compresses in place when
\* QueueCompression rejects: no job is added, and the slot holds the LZ4
\* bytes of its buffer when they are fewer and its buffer otherwise
SyncInstead(e, i) ==
  LET state == e.frames[i]
      s == SaveCompress([e EXCEPT !.head = i])
      lz == LZ4_compress_fast(state.buf.data)
  IN  MustReject(e, i) =>
        /\ s.jobs = e.jobs
        /\ s.results = e.results
        /\ IF Len(lz) > 0 /\ Len(lz) < state.uncompressed_size
           THEN /\ s.frames[i].compressed
                /\ s.frames[i].buf.data = lz
                /\ s.frames[i].cbuf = Len(lz)
           ELSE s.frames[i] = state

\* C24: for a slot that holds an uncompressed buffer, QueueCompression
\* returns false, adds no job and leaves compress_pending and both deques
\* as they are when async compression is off, the worker thread is not
\* running, shutdown is in progress, the slot is already pending or the
\* jobs and results in flight fill the ring depth; otherwise it appends
\* exactly one job with the buffer and the frame of the slot, sets
\* compress_pending and returns true.  Whenever it rejects,
\* SaveCurrentFrame compresses the slot synchronously.
C24_QueueCompression ==
  ~eng.ub =>
    /\ \A i \in Slots :
         (eng.frames[i].buf.id # 0 /\ ~eng.frames[i].compressed) =>
           \A e \in QueueStates(eng, i) : QueueAnswer(e, i) /\ SyncInstead(e, i)
    /\ ref.e.jobs = <<>>
    /\ \A i \in Slots : ~ref.e.frames[i].compress_pending

\* the engine has queued the job of a frame whose slot is pending, while
\* the engine without the worker has compressed the same frame in place
C24_Witness ==
  /\ ~eng.ub
  /\ \E i \in Slots :
       /\ eng.frames[i].compress_pending
       /\ ~eng.frames[i].compressed
       /\ \E k \in 1 .. Len(eng.jobs) :
            /\ eng.jobs[k].state = i
            /\ eng.jobs[k].input = eng.frames[i].buf.id
            /\ eng.jobs[k].frame = eng.frames[i].frame
       /\ ref.e.frames[i].frame = eng.frames[i].frame
       /\ ref.e.frames[i].compressed

\* the sides of the rooms that are present and were seen no more than
\* ROOM_TIMEOUT_SEC ago, each with its room name and address
Sides(rooms, now) ==
  {<<rooms[i].name, "H", rooms[i].host_addr>> :
     i \in {j \in 1 .. Len(rooms) :
              rooms[j].has_host /\ now - rooms[j].host_seen <= ROOM_TIMEOUT_SEC}}
  \cup
  {<<rooms[i].name, "C", rooms[i].client_addr>> :
     i \in {j \in 1 .. Len(rooms) :
              rooms[j].has_client /\ now - rooms[j].client_seen <= ROOM_TIMEOUT_SEC}}

\* the reply to a valid datagram for the room name whose role is role: PEER
\* to both sides with the address the other side was last seen at when the
\* room has both sides, WAIT to the sender when it has the side of the
\* sender only, nothing when the table has no such room
Paired(rooms, now, sent, name, role, from, latest) ==
  LET found == {i \in 1 .. Len(rooms) : rooms[i].name = name}
      room == rooms[CHOOSE i \in found : TRUE]
      other == <<name, IF role = <<"H">> THEN <<"C">> ELSE <<"H">>>>
      host == IF role = <<"H">> THEN from ELSE latest[other]
      client == IF role = <<"H">> THEN latest[other] ELSE from
  IN  IF found = {} THEN sent = <<>>
      ELSE IF room.has_host /\ room.has_client
      THEN /\ now - room.host_seen <= ROOM_TIMEOUT_SEC
           /\ now - room.client_seen <= ROOM_TIMEOUT_SEC
           /\ other \in DOMAIN latest
           /\ sent = <<[to |-> host, msg |-> <<"PEER", client.ip, client.port>>],
                       [to |-> client, msg |-> <<"PEER", host.ip, host.port>>]>>
      ELSE /\ role = <<"H">> => room.has_host
           /\ role = <<"C">> => room.has_client
           /\ sent = <<[to |-> from, msg |-> <<"WAIT", name>>]>>

\* what the server does with the datagram buf from the address from
Answered(rooms, now, latest, buf, from) ==
  LET r == Serve(rooms, now, buf, from)
  IN  IF Valid(buf)
      THEN Paired(r.rooms, now, r.sent, Words(buf)[3], Words(buf)[2], from, latest)
      ELSE WrongMagicOrRole(buf) =>
             /\ r.sent = <<>>
             /\ Sides(r.rooms, now) = Sides(rooms, now)

\* C25: when the server has handled a datagram "RNDV1 H <room>" or
\* "RNDV1 C <room>" and the room has a live host and a live client, it has
\* sent each of them a PEER message with the address and port the other
\* was last seen at; when the room has the side of the sender only, it has
\* sent WAIT <room> to the sender and nothing else; a datagram with another
\* magic or with a role other than H or C is not answered and changes the
\* host and the client of no room.
C25_RendezvousPairing ==
  \A buf \in Packets, from \in Addrs :
    Answered(rv.rooms, rv.now, rv.latest, buf, from)

C27_StatsAsyncEquivalent ==
  ~eng.ub =>
    LET a == GetStateStats(eng)
        s == GetStateStats(ref.e)
    IN  /\ a.delta_frames = s.delta_frames
        /\ a.keyframes = s.keyframes
        /\ a.delta_ratio_last = s.delta_ratio_last
        /\ a.delta_ratio_max = s.delta_ratio_max
        /\ a.delta_ratio_avg = s.delta_ratio_avg

\* The job of the slot the simulation thread waits for is queued or with the
\* worker
JobOutstanding(e) ==
  \/ \E k \in 1 .. Len(e.jobs) : e.jobs[k].state = e.wslot
  \/ (e.wjob # NoJob /\ e.wjob.state = e.wslot)

\* C28: a WaitForCompression that found the slot pending returns in the
\* end, with compress_pending of the slot false, when the worker and the
\* waiting thread are scheduled fairly; the thread sleeps on the condition
\* variable only while no result is queued and the job of its slot is still
\* to be published, so no notification is lost; and the call changes
\* nothing, and does not wait, when async compression is off or the slot is
\* not pending.
C28_WaitForCompressionTerminates ==
  /\ (eng.wait \in {"lock", "sleep", "awake"}) ~>
       (eng.wait = "resume" /\ ~eng.frames[eng.wslot].compress_pending)
  /\ [](eng.wait = "sleep" =>
          (/\ eng.results = <<>>
           /\ eng.frames[eng.wslot].compress_pending
           /\ JobOutstanding(eng)))
  /\ [](eng.wait = "resume" => ~eng.frames[eng.wslot].compress_pending)
  /\ [](\A i \in Slots :
          /\ ~eng.frames[i].compress_pending => WaitForCompressionEnter(eng, i) = eng
          /\ WaitForCompressionEnter(ref.e, i) = ref.e)

\* the simulation thread, which slept while two jobs were outstanding, has
\* been woken and has returned from the wait
C28_Witness ==
  /\ eng.wait = "resume"
  /\ obs.op = "AdjustSimulation"
  /\ Len(eng.jobs) >= 1

\* C29: once _compress_shutdown is set the worker returns in the end, and
\* join with it; the worker returns only with shutdown set, the job deque
\* empty and no job in its hands; a job the worker finishes while shutdown
\* is set adds no result, leaves no compressed buffer allocated and clears
\* compress_pending of its slot.
C29_WorkerShutdown ==
  /\ eng.shutdown ~> eng.wexit
  /\ (eng.pc = "join") ~> (eng.pc # "join")
  /\ [](eng.wexit => (eng.jobs = <<>> /\ eng.wjob = NoJob))
  /\ [][/\ (eng'.wexit /\ ~eng.wexit) => (eng.shutdown /\ eng.jobs = <<>>)
        /\ (eng.shutdown /\ eng.wjob # NoJob /\ eng'.wjob = NoJob) =>
             (/\ eng'.results = eng.results
              /\ eng'.mallocs = eng.mallocs
              /\ ~eng'.frames[eng.wjob.state].compress_pending)]_vars

\* the destructor found two jobs queued; the worker has taken both after
\* shutdown was set and has returned, join has not returned yet
C29_Witness ==
  /\ eng.pc = "join"
  /\ eng.wexit
  /\ obs.op = "StopCompressionThread"
  /\ obs.stop_jobs = 2

\* The worker finishes job and the simulation thread applies its result
CompressionCompletes(e, job) ==
  LET e1 == CompressionThreadPublish([e EXCEPT !.wjob = job])
  IN  IF e1.ub THEN e1
      ELSE ApplyCompressionResult(
             [e1 EXCEPT !.results = SubSeq(@, 1, Len(@) - 1)],
             e1.results[Len(e1.results)])

\* One more step of the compression of the slots of e: the simulation
\* thread applies any queued result, or the job the worker holds or any
\* queued job is finished and its result applied
CompressionMoves(e) ==
  IF e.ub THEN {}
  ELSE {ApplyCompressionResult([e EXCEPT !.results = RemoveAt(@, k)], e.results[k]) :
          k \in 1 .. Len(e.results)}
       \cup (IF e.wjob # NoJob THEN {CompressionCompletes(e, e.wjob)}
             ELSE {CompressionCompletes([e EXCEPT !.jobs = RemoveAt(@, k)], e.jobs[k]) :
                     k \in 1 .. Len(e.jobs)})

\* The engines that e becomes when any subset of its outstanding
\* compressions is completed and applied, in any order
RECURSIVE CompressionOrders(_)
CompressionOrders(e) ==
  {e} \cup UNION {CompressionOrders(m) : m \in CompressionMoves(e)}

\* C30: the bytes ReconstructFrameInternal gives for a frame of the ring,
\* along its chain of deltas from the last non-delta frame, are the same
\* whichever of the outstanding compressions of the slots have been
\* completed and applied, and in whichever order.
C30_DeltaAssociativity ==
  ~eng.ub =>
    \A e \in CompressionOrders(eng) :
      /\ ~e.ub
      /\ \A F \in 0 .. MaxAsyncFrame :
           ReconstructFrameInternal(e, F) = ReconstructFrameInternal(eng, F)

\* frame 2 is a delta on a chain from frame 1, both compressions are
\* outstanding, and applying them turns the two slots into LZ4 slots
C30_Witness ==
  /\ ~eng.ub
  /\ Retained(eng, 1) /\ Retained(eng, 2)
  /\ eng.frames[FindSavedFrameIndex(eng, 2)].delta
  /\ ~eng.frames[FindSavedFrameIndex(eng, 1)].delta
  /\ ReconstructFrameInternal(eng, 2).ok
  /\ ~eng.frames[FindSavedFrameIndex(eng, 1)].compressed
  /\ ~eng.frames[FindSavedFrameIndex(eng, 2)].compressed
  /\ \E e \in CompressionOrders(eng) :
       /\ e.frames[FindSavedFrameIndex(eng, 1)].compressed
       /\ e.frames[FindSavedFrameIndex(eng, 2)].compressed

\* C31: FindSavedFrameIndex(F) is the index of a slot that holds a snapshot
\* of frame F when the ring has one, and -1 when no slot holds a snapshot
\* of F; right after construction, before any save, that is -1 for every F.
C31_FindSavedFrameIndex ==
  ~eng.ub =>
    \A F \in Frames :
      LET i == FindSavedFrameIndex(eng, F)
      IN  IF \E k \in Slots : eng.frames[k].frame = F /\ eng.frames[k].buf.id # 0
          THEN i \in Slots /\ eng.frames[i].frame = F /\ eng.frames[i].buf.id # 0
          ELSE i = -1

\* The engine e with callback buffers added to its pool until it holds n
PoolFilledTo(e, n) ==
  LET more == n - Len(e.pool)
      used == e.mallocs \cup e.cbufs \cup {0}
      first == CHOOSE m \in used : \A x \in used : m >= x
  IN  IF more <= 0 THEN e
      ELSE [e EXCEPT !.pool = @ \o [k \in 1 .. more |->
                                      [id |-> first + k, capacity |-> 3,
                                       data |-> <<0, 0, 0>>]],
                     !.cbufs = @ \cup {first + k : k \in 1 .. more}]

\* The engines RecycleStateBuffer is tried on: e with its pool filled to n,
\* with and without a free callback
PoolStates(e) ==
  {[PoolFilledTo(e, n) EXCEPT !.free_buffer = cb] :
     n \in {0, RingSize - 1, RingSize}, cb \in BOOLEAN}

\* RecycleStateBuffer of a callback buffer of the given capacity on e: the
\* pool grows, by this buffer, only when it was below the ring depth, the
\* capacity is positive and a free callback is set; otherwise the pool is
\* as before and the buffer has gone to the free callback, if there is one
Recycled(e, capacity) ==
  LET id == Malloc(e, {})
      e1 == HeapCallback(e, id)
      r == RecycleStateBuffer(e1, [id |-> id, data |-> <<0, 0, 0>>], capacity)
      pooled == Len(e.pool) < RingSize /\ capacity > 0 /\ e.free_buffer
  IN  /\ Len(r.pool) <= RingSize
      /\ r.heap_fault = e.heap_fault
      /\ IF pooled
         THEN /\ r.pool = Append(e.pool, [id |-> id, capacity |-> capacity,
                                          data |-> <<0, 0, 0>>])
              /\ id \in r.cbufs
         ELSE /\ r.pool = e.pool
              /\ e.free_buffer => id \notin r.cbufs

\* AcquireStateBuffer on e hands out nothing, or a buffer of the pool that
\* is in the pool no more and that no slot holds
Acquired(e) ==
  LET a == AcquireStateBuffer(e)
  IN  IF a.buf.id = 0 THEN a.e = e
      ELSE /\ a.buf.id \in PoolIds(e)
           /\ a.buf.id \notin PoolIds(a.e)
           /\ Len(a.e.pool) = Len(e.pool) - 1
           /\ \A i \in Slots : e.frames[i].buf.id # a.buf.id

\* C32: the pool never holds more than RingSize buffers; RecycleStateBuffer
\* adds a buffer only to a pool below that size, with a capacity > 0 and a
\* free callback set, and hands it to the free callback otherwise;
\* AcquireStateBuffer takes the entry it returns out of the pool, the pool
\* holds no buffer twice and none that a slot holds.
C32_PoolBound ==
  ~eng.ub =>
    /\ Len(eng.pool) <= RingSize
    /\ \A j, k \in 1 .. Len(eng.pool) : eng.pool[j].id = eng.pool[k].id => j = k
    /\ \A i \in Slots : eng.frames[i].buf.id \notin PoolIds(eng)
    /\ \A e \in PoolStates(eng) :
         /\ Acquired(e)
         /\ \A capacity \in {0, 3} : Recycled(e, capacity)

\* the pool holds a buffer that the next save will take
C32_Witness ==
  /\ ~eng.ub
  /\ eng.pool # <<>>
  /\ AcquireStateBuffer(eng).buf.id # 0
  /\ eng.framecount >= 2

\* the names of the rooms of the table
RoomNames(rooms) == {rooms[i].name : i \in 1 .. Len(rooms)}

\* C33: the table never holds more than MAX_ROOMS rooms and no two rooms
\* of one name; a valid packet that names a room the table does not hold,
\* when the table, once the silent sides and the empty rooms are pruned,
\* holds MAX_ROOMS rooms, gets no reply and leaves every room as it is; a
\* valid packet that names a room of the table adds no room.
C33_RoomTableBound ==
  /\ Len(rv.rooms) <= MAX_ROOMS
  /\ \A i, j \in 1 .. Len(rv.rooms) : rv.rooms[i].name = rv.rooms[j].name => i = j
  /\ \A buf \in Packets, from \in Addrs :
       Valid(buf) =>
         LET pruned == prune_rooms(rv.rooms, rv.now)
             r == Serve(rv.rooms, rv.now, buf, from)
             name == Words(buf)[3]
         IN  /\ (Len(pruned) >= MAX_ROOMS /\ name \notin RoomNames(pruned)) =>
                  (/\ r.sent = <<>>
                   /\ r.rooms = pruned
                   /\ Sides(r.rooms, rv.now) = Sides(rv.rooms, rv.now))
             /\ name \in RoomNames(pruned) =>
                  (/\ Len(r.rooms) = Len(pruned)
                   /\ \A i \in 1 .. Len(pruned) : r.rooms[i].name = pruned[i].name)

\* the table is full of rooms with a side that is not silent, and the
\* client of a third room, the last datagram, got no reply and no room
C33_Witness ==
  /\ rv.op = "recv"
  /\ rv.sent = <<>>
  /\ rv.now = 0
  /\ Len(rv.rooms) = MAX_ROOMS
  /\ RoomNames(rv.rooms) = {<<"a">>, <<"c">>}
  /\ <<<<"b">>, <<"C">>>> \in DOMAIN rv.latest

\* The sides that have sent a packet in the last ROOM_TIMEOUT_SEC seconds,
\* with buf from the address from counted as sent now
Heard(seen, now, buf, from) ==
  {<<x[1], x[2], seen[x].addr>> :
     x \in {y \in DOMAIN seen : now - seen[y].time <= ROOM_TIMEOUT_SEC
                                 /\ y # Side(buf)}}
  \cup {<<Side(buf)[1], Side(buf)[2], from>>}

\* the sides the rooms of the table have, whatever their age
Members(rooms) ==
  {<<rooms[i].name, "H", rooms[i].host_addr>> :
     i \in {j \in 1 .. Len(rooms) : rooms[j].has_host}}
  \cup
  {<<rooms[i].name, "C", rooms[i].client_addr>> :
     i \in {j \in 1 .. Len(rooms) : rooms[j].has_client}}

\* C34: when a valid packet is processed, every side that has been silent
\* for more than ROOM_TIMEOUT_SEC is out of its room before the pairing:
\* the sides left in the table are sides heard within the timeout, a PEER
\* message goes to such a side and carries the address of such a side of
\* the same room, a room with no side left is gone, and the rooms that
\* stay keep their order, names, sides that are not silent, and addresses.
C34_RendezvousTimeout ==
  \A buf \in Packets, from \in Addrs :
    Taken(buf) =>
      LET r == Serve(rv.rooms, rv.now, buf, from)
          pruned == prune_rooms(rv.rooms, rv.now)
          heard == Heard(rv.seen, rv.now, buf, from)
      IN  /\ Members(r.rooms) \subseteq heard
          /\ \A k \in 1 .. Len(r.sent) :
               r.sent[k].msg[1] = "PEER" =>
                 \E a, b \in heard :
                   /\ a[1] = b[1] /\ a[2] # b[2]
                   /\ r.sent[k].to = a[3]
                   /\ r.sent[k].msg = <<"PEER", b[3].ip, b[3].port>>
          /\ \A i \in 1 .. Len(r.rooms) : r.rooms[i].has_host \/ r.rooms[i].has_client
          /\ \A i \in 1 .. Len(pruned) : pruned[i].has_host \/ pruned[i].has_client
          /\ Members(pruned) = Sides(rv.rooms, rv.now)
          /\ \E keep \in SUBSET (1 .. Len(rv.rooms)) :
               /\ Cardinality(keep) = Len(pruned)
               /\ \A i \in 1 .. Len(pruned) :
                    LET j == CHOOSE j \in keep :
                               Cardinality({m \in keep : m < j}) = i - 1
                    IN  pruned[i] = PruneSides(rv.rooms[j], rv.now)

\* the host of room a has been silent for longer than the timeout when the
\* client of the room sends its packet: the client is told to wait
C34_Witness ==
  /\ rv.op = "recv"
  /\ \E from \in Addrs : rv.sent = <<send_wait(from, <<"a">>)>>
  /\ <<<<"a">>, "H">> \in DOMAIN rv.seen
  /\ <<<<"a">>, "C">> \in DOMAIN rv.seen
  /\ rv.now - rv.seen[<<<<"a">>, "H">>].time > ROOM_TIMEOUT_SEC
  /\ rv.seen[<<<<"a">>, "C">>].time = rv.now
  /\ \E i \in 1 .. Len(rv.rooms) :
       rv.rooms[i].name = <<"a">> /\ rv.rooms[i].has_client /\ ~rv.rooms[i].has_host

\* C35: after frames simulated one after the other, with no rollback yet,
\* AdjustSimulation(seek) for a frame that was saved and is no more than
\* max_prediction_frames behind the current frame loads that frame: it
\* does not take the path that only clears the predictions.
C35_RollbackWindow ==
  (Idle /\ loads = 0) =>
    \A seek \in Frames :
      (/\ 0 <= eng.framecount - seek
       /\ eng.framecount - seek <= eng.max_prediction_frames
       /\ Retained(eng, seek)) =>
        LET r == AdjustSimulationBegin(eng, seek)
        IN  r.ok /\ r.e.framecount = seek

\* the number of compressions of the slot i that are queued as jobs, with
\* the worker, or queued as results
Outstanding(e, i) ==
  Cardinality({k \in 1 .. Len(e.jobs) : e.jobs[k].state = i})
    + (IF e.wjob # NoJob /\ e.wjob.state = i THEN 1 ELSE 0)
    + Cardinality({k \in 1 .. Len(e.results) : e.results[k].state = i})

\* C36: with the worker running and no stop under way, compress_pending of
\* a slot is set exactly when one compression of the slot is queued, with
\* the worker or among the results, and no slot has two; so the jobs, the
\* job with the worker and the results together, and the maxima reported
\* for the two queues, never exceed the ring depth.
C36_PendingAccounting ==
  (~eng.ub /\ eng.thread /\ ~eng.shutdown) =>
    /\ \A i \in Slots :
         Outstanding(eng, i) = IF eng.frames[i].compress_pending THEN 1 ELSE 0
    /\ \A k \in 1 .. Len(eng.jobs) : eng.jobs[k].state \in Slots
    /\ \A k \in 1 .. Len(eng.results) : eng.results[k].state \in Slots
    /\ Len(eng.jobs) + (IF eng.wjob # NoJob THEN 1 ELSE 0) + Len(eng.results) <= RingSize
    /\ eng.jobs_max <= RingSize
    /\ eng.results_max <= RingSize

\* a job is queued, the worker is on another and a result waits
C36_Witness ==
  /\ ~eng.ub /\ eng.thread /\ ~eng.shutdown
  /\ eng.jobs # <<>>
  /\ eng.wjob # NoJob
  /\ eng.results # <<>>
  /\ eng.jobs_max >= 2

\* The records between tail and head are linked: tail is the start of the
\* oldest (head, when there is none), the forward pointer at the start of
\* each leads to the start of the next, and from the newest to head, and
\* the back pointer stored before the start of the next, and before head,
\* leads back to the start of the record
Chained(st) ==
  LET n == Len(st.starts)
      next(k) == IF k < n THEN st.starts[k + 1] ELSE st.head
  IN  /\ st.tail = IF n = 0 THEN st.head ELSE st.starts[1]
      /\ \A k \in 1 .. n :
           /\ st.starts[k] \in st.written
           /\ read_size_t(st, st.starts[k]) = next(k)
           /\ next(k) - SizeT \in st.written
           /\ read_size_t(st, next(k) - SizeT) = st.starts[k]

\* C37: after any pushes and pops the back pointers lead from head through
\* the starts of the records that push_do wrote, newest first, to tail, the
\* forward pointers lead from tail through the same starts to head, and
\* tail is the start of the oldest record left; no pointer is read where
\* none was written.
C37_RewindChain ==
  /\ rw.st.fault = "none"
  /\ Chained(rw.st)
  /\ Len(rw.st.starts) = Len(rw.st.records)

\* C38: entries is the number of snapshots that pops can still return: the
\* block in thisblock, when it is valid, and one for each record between
\* tail and head.
C38_RewindEntries ==
  rw.st.entries = Len(rw.st.starts) + (IF rw.st.thisblock_valid THEN 1 ELSE 0)

\* C39: at every capacity push_do accepts, its eviction loop ends and no
\* forward pointer is read from a cell that no push wrote, neither by the
\* loop nor where head wraps: tail is head, with no record left, or the
\* start of the oldest record.  At a smaller capacity push_do keeps the
\* first state in thisblock and writes nothing after that.
C39_RewindEviction ==
  IF rw.st.capacity >= SizeT + rw.st.maxcompsize
  THEN /\ rw.st.fault = "none"
       /\ rw.st.tail = IF rw.st.starts = <<>> THEN rw.st.head ELSE rw.st.starts[1]
  ELSE /\ rw.st.fault = "none"
       /\ rw.st.head = SizeT /\ rw.st.tail = SizeT
       /\ rw.st.written = {}
       /\ rw.st.entries <= 1


(***************************************************************************)
(* Sync::Init on an engine that has already run a session.                 *)
(***************************************************************************)
\* Sync::CompressionThreadMain from the moment _compress_shutdown is raised
\* to its return: the worker finishes the job it holds, takes the jobs
\* still queued one by one and returns when the queue is empty
RECURSIVE CompressionThreadDrain(_)
CompressionThreadDrain(e) ==
  IF e.ub THEN e
  ELSE IF e.wjob # NoJob THEN CompressionThreadDrain(CompressionThreadPublish(e))
  ELSE IF e.jobs # <<>> THEN CompressionThreadDrain(CompressionThreadTake(e))
  ELSE CompressionThreadExit(e)

\* Sync::StopCompressionThread from call to return, its join included
StopCompressionThread(e) ==
  IF ~e.thread THEN StopCompressionThreadBegin(e)
  ELSE LET joined == CompressionThreadDrain(StopCompressionThreadBegin(e))
       IN  IF joined.ub THEN joined ELSE StopCompressionThreadEnd(joined)

\* Sync::StartCompressionThread
StartCompressionThread(e) ==
  IF e.thread THEN e
  ELSE [e EXCEPT !.shutdown = FALSE, !.jobs = <<>>, !.results = <<>>,
                 !.jobs_max = 0, !.results_max = 0,
                 !.thread = TRUE, !.wjob = NoJob, !.wexit = FALSE]

\* Sync::Init: the worker is stopped and the pool cleared, the frame count,
\* the rollback flag, the delta base and the statistics are reset, the
\* worker is started again if the configuration asks for it, and the input
\* queues are created anew.  _savedstate and _last_confirmed_frame are not
\* assigned.
SyncInit(e, async_compress) ==
  LET e1 == ClearStateBufferPool(StopCompressionThread(e))
      e2 == [e1 EXCEPT !.framecount = 0,
                       !.rollingback = FALSE,
                       !.last_state = [@ EXCEPT !.valid = FALSE, !.size = 0,
                                                !.frame = -1],
                       !.delta_stats = [delta_bytes_sum |-> 0,
                                        delta_raw_bytes_sum |-> 0,
                                        delta_frames |-> 0, keyframes |-> 0,
                                        delta_ratio_last |-> 0,
                                        delta_ratio_max |-> 0],
                       !.max_prediction_frames = MAX_PREDICTION_FRAMES,
                       !.async_compress = async_compress,
                       !.input_queues = [i \in Players |-> InputQueue],
                       !.pc = "run"]
  IN  IF async_compress THEN StartCompressionThread(e2) ELSE e2

\* what Sync::Init promises about the engine e it returns
CleanQueues(e) ==
  /\ e.jobs = <<>> /\ e.results = <<>> /\ e.wjob = NoJob
  /\ \A i \in Slots : ~e.frames[i].compress_pending
  /\ e.pool = <<>>

NoSnapshot(e) ==
  /\ \A i \in Slots : e.frames[i].buf.id = 0
  /\ \A F \in Frames :
       FindSavedFrameIndex(e, F) # -1 => e.frames[FindSavedFrameIndex(e, F)].buf.id = 0

\* C40: Init starts a clean session.  Whenever the application calls Init
\* between two calls, with async_compress on or off, the engine it returns
\* has frame count 0, is not rolling back, holds no compression job, no
\* result and no pending flag, has an empty pool, retains no snapshot of
\* the session before (so FindSavedFrameIndex and LoadFrame find none), and
\* has last_confirmed_frame -1.
C40_InitCleanSession ==
  (Idle /\ eng.pc = "run" /\ eng.wait = "none") =>
    \A async_compress \in BOOLEAN :
      LET e == SyncInit(eng, async_compress)
      IN  /\ ~e.ub
          /\ e.framecount = 0
          /\ ~e.rollingback
          /\ CleanQueues(e)
          /\ NoSnapshot(e)
          /\ e.last_confirmed_frame = -1

====
